---- MODULE Spec2Model ----
(***************************************************************************)
(* A model of cmake_index.nvim: the index built from a cmake-server        *)
(* codemodel (rplugin/python3/cmake_index/index.py) and the cmake-server   *)
(* client (rplugin/python3/cmake_index/server.py).                         *)
(*                                                                         *)
(* Representation.  A directory is a sequence of components, absolute when *)
(* it starts with "/".  A file path is a record [dir, stem, ext].  A       *)
(* Python dict is a function whose DOMAIN is its key set, so a missing key *)
(* is a missing field; an insertion-ordered dict is a function plus the    *)
(* sequence of its keys.  Python's None is the string "None" where a       *)
(* string is expected and NoneObj where a dict is expected.                *)
(***************************************************************************)
EXTENDS Integers, Sequences, FiniteSets, TLC

VARIABLES
    \* ---- Index (index.py) ----
    phase,        \* "constructed" after Index.__init__, "initialized" after initialize
    codemodel,    \* the reply of server.codemodel(): the projects of configuration 0
    disk,         \* the file system read by match_header: path -> contents
    projects,     \* Index._projects
    targets,      \* Index._targets (values)
    targetOrder,  \* Index._targets (key order)
    files,        \* Index._files (values)
    fileOrder,    \* Index._files (key order)
    cache,        \* Index._cache
    root_directory,   \* Index.root_directory
    build_directory,  \* Index.build_directory
    ret           \* the last call on the index and its outcome

ivars == <<phase, codemodel, disk, projects, targets, targetOrder, files, fileOrder, cache,
           root_directory, build_directory, ret>>

VARIABLES
    \* ---- CmakeServer (server.py) ----
    self_root_dir,   \* CmakeServer.root_dir
    self_build_dir,  \* CmakeServer.build_dir
    socket_path,  \* CmakeServer.socket_path
    process,      \* CmakeServer.process: None or the Popen object
    returncode,   \* Popen.returncode: None until a poll() collects the exit status
    socket,       \* CmakeServer.socket
    \* ---- the operating system and the cmake server ----
    proc,         \* the subprocess: "none", "running", "zombie" (exited, not waited for), "reaped"
    status,       \* its exit status, once it has exited
    listening,    \* the server has bound its socket
    sockFile,     \* the socket file exists
    greeted,      \* the server has written its hello frame
    inbox,        \* the frames the server has written and the client has not read
    pending,      \* the frames the client has written and the server has not answered
    handshakes,   \* how many handshake frames the client has written
    noise,        \* how many signal, message and progress frames it wrote for the pending one
    \* ---- the calling thread ----
    pc,           \* where the client is: "idle", or inside start or send_and_read
    invoked,      \* the operation in progress or last finished, with what held when it was called
    err,          \* its outcome: "running", "ok", or the exception raised
    errText,      \* the text of a ServerRequestFailed
    reply,        \* what the operation returned
    lastFrame,    \* the last frame read_message returned to the operation
    tries,        \* the local 'tries' of start
    sleeps,       \* how often the start in progress has slept waiting for the socket file
    disposals     \* how often __del__ has run

svars == <<self_root_dir, self_build_dir, socket_path, process, returncode, socket,
           proc, status, listening, sockFile, greeted, inbox, pending, handshakes, noise,
           pc, invoked, err, errText, reply, lastFrame, tries, sleeps, disposals>>

VARIABLES
    \* ---- the socket, as lines (server.py, read_message and send_message) ----
    sockLines,      \* the lines written to the socket and not yet read from it
    framesWritten,  \* the messages send_message was called with
    framesRead      \* what the calls of read_message returned, and how many lines each read

wvars == <<sockLines, framesWritten, framesRead>>

VARIABLES
    \* ---- Plugin (__init__.py) ----
    servers,          \* Plugin.servers: build directory -> client
    index,            \* Plugin.index: build directory -> index (values)
    indexOrder,       \* Plugin.index (key order)
    used_build_dirs,  \* Plugin.used_build_dirs: root directory -> build directory
    buffers,          \* vim.buffers: the names of the buffers, in the order they were made
    bufvars,          \* the cmake_* variables of each buffer
    persistent_server,  \* the option persistent_server
    \* ---- the file system and the cmake servers of the plugin ----
    cachetxt,         \* the build directories that hold a CMakeCache.txt
    conns,            \* for each build directory, what its latest client wrote to its server
    inits,            \* how often init_project_info has been called
    pret              \* the last handler of the plugin and its outcome

pvars == <<servers, index, indexOrder, used_build_dirs, buffers, bufvars, persistent_server,
           cachetxt, conns, inits, pret>>

VARIABLES
    \* ---- update_buffer_variables call by call, and FlagsForFile (ycm_extra_conf.py) ----
    upd,    \* where the update_buffer_variables in progress stands, and which update it is
    wrote,  \* for each variable of the buffer, the update that wrote it
    ycm     \* where FlagsForFile stands and what it has read

yvars == <<upd, wrote, ycm>>

vars == <<ivars, svars, wvars, pvars, yvars>>

-----------------------------------------------------------------------------
(* Python values *)

None == "None"

NoneObj == [none |-> TRUE]

EmptyDict == <<>>

Get(d, k, default) == IF k \in DOMAIN d THEN d[k] ELSE default

Range(s) == {s[i] : i \in DOMAIN s}

\* The concatenation of the sequences ss[i], ss[i+1], ...
RECURSIVE FlattenFrom(_, _)
FlattenFrom(ss, i) == IF i > Len(ss) THEN <<>> ELSE ss[i] \o FlattenFrom(ss, i + 1)

Flatten(ss) == FlattenFrom(ss, 1)

\* dict[k] = v on an insertion-ordered dict: a new key goes last, an old key keeps its place.
OrderPut(order, dom, k) == IF k \in dom THEN order ELSE Append(order, k)

\* The key order after inserting the keys ks in turn: the keys new to dom, each at its
\* first occurrence, go last.
OrderPutAll(order, dom, ks) ==
    LET first == SelectSeq([i \in DOMAIN ks |-> i],
                           LAMBDA i : ks[i] \notin dom /\ \A j \in 1..(i - 1) : ks[j] # ks[i])
    IN order \o [n \in DOMAIN first |-> ks[first[n]]]

\* The dict built by inserting the (key, value) pairs of kvs in order: a later pair wins.
DictOf(kvs) ==
    [k \in {kvs[i][1] : i \in DOMAIN kvs} |->
        kvs[CHOOSE i \in DOMAIN kvs : kvs[i][1] = k /\ \A j \in DOMAIN kvs : kvs[j][1] = k => j <= i][2]]

Keys(kvs) == [i \in DOMAIN kvs |-> kvs[i][1]]

-----------------------------------------------------------------------------
(* os.path *)

Cwd == <<"/", "p">>

IsAbs(d) == Len(d) > 0 /\ d[1] = "/"

Join(a, b) == IF IsAbs(b) THEN b ELSE a \o b

Abspath(d) == Join(Cwd, d)

JoinFile(d, f) == [f EXCEPT !.dir = Join(d, f.dir)]

Dirname(f) == f.dir

\* The number of leading components two directories share.
CommonPrefix(a, b) ==
    Cardinality({n \in 1..Len(a) : n <= Len(b) /\ SubSeq(a, 1, n) = SubSeq(b, 1, n)})

RelDir(d, start) ==
    LET n == CommonPrefix(d, start)
    IN [i \in 1..(Len(start) - n) |-> ".."] \o SubSeq(d, n + 1, Len(d))

Relpath(f, start) == [f EXCEPT !.dir = RelDir(f.dir, start)]

-----------------------------------------------------------------------------
(* The converter: index.py, convert_* *)

\* str.split() of a string given as its words and the runs of whitespace between them.
Split(s) == SelectSeq(s, LAMBDA w : w # " ")

IncludeDir(include, parent_target) ==
    IF IsAbs(include.path) THEN include.path
    ELSE Join(parent_target.source_dir, include.path)

\* A flag list is a sequence of tokens; a token is a sequence of strings: <<"-I">>,
\* <<"-DNAME">>, or a directory.
IncludePathToFlags(include_path_json, parent_target) ==
    Flatten([i \in DOMAIN include_path_json |->
        << <<IF Get(include_path_json[i], "isSystem", FALSE) THEN "-isystem" ELSE "-I">>,
           IncludeDir(include_path_json[i], parent_target) >>])

\* The same flags with the defines put first.
FileFlagsDefinesFirst(group_json, parent_target) ==
    LET words   == Split(Get(group_json, "compileFlags", <<>>))
        defines == Get(group_json, "defines", <<>>)
    IN [i \in DOMAIN defines |-> <<"-D" \o defines[i]>>]
       \o [i \in DOMAIN words |-> <<words[i]>>]
       \o IncludePathToFlags(Get(group_json, "includePath", <<>>), parent_target)

FileFlags(group_json, parent_target) ==
    LET words   == Split(Get(group_json, "compileFlags", <<>>))
        defines == Get(group_json, "defines", <<>>)
    IN [i \in DOMAIN words |-> <<words[i]>>]
       \o [i \in DOMAIN defines |-> <<"-D" \o defines[i]>>]
       \o IncludePathToFlags(Get(group_json, "includePath", <<>>), parent_target)

ConvertFileInfo(group_json, parent_target) ==
    [i \in DOMAIN group_json.sources |->
        LET filename == group_json.sources[i]
            path == IF IsAbs(filename.dir) THEN filename
                    ELSE JoinFile(parent_target.source_dir, filename)
            includePath == Get(group_json, "includePath", <<>>)
        IN [target_name    |-> parent_target.name,
            tree_root_dir  |-> parent_target.tree_root_dir,
            tree_build_dir |-> parent_target.tree_build_dir,
            lang           |-> Get(group_json, "language", None),
            heuristics     |-> FALSE,
            other_flags    |-> Split(Get(group_json, "compileFlags", <<>>)),
            defines        |-> Get(group_json, "defines", <<>>),
            includes       |-> [j \in DOMAIN includePath |-> IncludeDir(includePath[j], parent_target)],
            flags          |-> FileFlags(group_json, parent_target),
            path           |-> path,
            object_file    |-> [object_dir |-> parent_target.object_dir,
                                relative   |-> Relpath(path, parent_target.source_dir)]]]

\* group[0] of an empty file group raises IndexError (index.py:225).
TargetRaises(target_json) ==
    \E i \in DOMAIN Get(target_json, "fileGroups", <<>>) : target_json.fileGroups[i].sources = <<>>

ConvertTargetInfo(target_json, parent_project) ==
    LET build_dir == Abspath(target_json.buildDirectory)
        base == [name            |-> target_json.name,
                 squashed        |-> FALSE,
                 type            |-> target_json.type,
                 tree_root_dir   |-> parent_project.tree_root_dir,
                 tree_build_dir  |-> parent_project.tree_build_dir,
                 build_dir       |-> build_dir,
                 source_dir      |-> Abspath(target_json.sourceDirectory),
                 link_lang       |-> Get(target_json, "linkerLanguage", None),
                 result_name     |-> Get(target_json, "fullName", None),
                 artifacts       |-> Get(target_json, "artifacts", <<>>),
                 object_dir      |-> build_dir \o <<"CMakeFiles", target_json.name \o ".dir">>]
        groupsJson == Get(target_json, "fileGroups", <<>>)
        groups == [i \in DOMAIN groupsJson |-> ConvertFileInfo(groupsJson[i], base)]
    IN base @@
       [filepaths       |-> Flatten([i \in DOMAIN groups |->
                                [j \in DOMAIN groups[i] |-> groups[i][j].path]]),
        all_includes    |-> Flatten([i \in DOMAIN groups |-> groups[i][1].includes]),
        all_defines     |-> Flatten([i \in DOMAIN groups |-> groups[i][1].defines]),
        all_other_flags |-> Flatten([i \in DOMAIN groups |-> groups[i][1].other_flags]),
        all_flags       |-> Flatten([i \in DOMAIN groups |-> groups[i][1].flags])]

\* A test that leaves out the custom targets only.
ExcludedUtilityOnly(target_json) == target_json.type = "UTILITY"

Excluded(target_json) == target_json.type = "UTILITY" \/ target_json.type = "INTERFACE_LIBRARY"

ProjectRaises(json) ==
    \E i \in DOMAIN Get(json, "targets", <<>>) :
        ~Excluded(json.targets[i]) /\ TargetRaises(json.targets[i])

\* The project record; 'targets' is the ordered dict of its targets as (name, info)
\* pairs in insertion order, 'files' the list of its files.
ConvertProjectInfo(json, root_dir, build_dir) ==
    LET result == [name           |-> json.name,
                   source_dir     |-> json.sourceDirectory,
                   build_dir      |-> json.buildDirectory,
                   tree_root_dir  |-> root_dir,
                   tree_build_dir |-> build_dir]
        kept == SelectSeq(Get(json, "targets", <<>>), LAMBDA t : ~Excluded(t))
        converted == [i \in DOMAIN kept |-> <<kept[i].name, ConvertTargetInfo(kept[i], result)>>]
        targetMap == DictOf(converted)
    IN result @@
       [targets     |-> targetMap,
        targetNames |-> OrderPutAll(<<>>, {}, Keys(converted)),
        files       |-> Flatten([i \in DOMAIN kept |->
                            Flatten([g \in DOMAIN Get(kept[i], "fileGroups", <<>>) |->
                                ConvertFileInfo(kept[i].fileGroups[g], targetMap[kept[i].name])])])]

ConvertCacheVariables(cache_json) ==
    DictOf([i \in DOMAIN cache_json |-> <<cache_json[i].key, cache_json[i].value>>])

-----------------------------------------------------------------------------
(* The resolution engine: index.py, directory heuristics and header matching *)

TargetDirectories(target) == {Dirname(target.filepaths[i]) : i \in DOMAIN target.filepaths}

\* target['filepaths'] of a dict without that key raises KeyError (index.py:270).
DirectoryScanRaises(tgts) == \E n \in DOMAIN tgts : "filepaths" \notin DOMAIN tgts[n]

TargetsInDirectory(abs_directory, tgts, order) ==
    SelectSeq([i \in DOMAIN order |-> tgts[order[i]]],
              LAMBDA target : abs_directory \in TargetDirectories(target))

\* '|'.join of the names of ts[i], ts[i+1], ...
RECURSIVE JoinNames(_, _)
JoinNames(ts, i) ==
    IF i >= Len(ts) THEN ts[i].name
    ELSE ts[i].name \o "|" \o JoinNames(ts, i + 1)

MergeTargetInfo(ts) ==
    IF Len(ts) = 0 THEN NoneObj
    ELSE [name            |-> JoinNames(ts, 1),
          squashed        |-> TRUE,
          type            |-> ts[1].type,
          tree_root_dir   |-> ts[1].tree_root_dir,
          tree_build_dir  |-> ts[1].tree_build_dir,
          build_dir       |-> Abspath(ts[1].build_dir),
          source_dir      |-> Abspath(ts[1].source_dir),
          link_lang       |-> Get(ts[1], "linkerLanguage", None),
          result_name     |-> Get(ts[1], "fullName", None),
          artifacts       |-> Get(ts[1], "artifacts", <<>>),
          filepaths       |-> <<>>,
          all_includes    |-> Flatten([i \in DOMAIN ts |-> ts[i].all_includes]),
          all_defines     |-> Flatten([i \in DOMAIN ts |-> ts[i].all_defines]),
          all_other_flags |-> Flatten([i \in DOMAIN ts |-> ts[i].all_other_flags]),
          all_flags       |-> Flatten([i \in DOMAIN ts |-> ts[i].all_flags])]

GetFileInfoForDirectory(abs_filepath, tgts, order) ==
    LET merged_target == MergeTargetInfo(TargetsInDirectory(Dirname(abs_filepath), tgts, order))
    IN IF merged_target = NoneObj THEN NoneObj
       ELSE [path           |-> abs_filepath,
             target_name    |-> merged_target.name,
             tree_root_dir  |-> merged_target.tree_root_dir,
             tree_build_dir |-> merged_target.tree_build_dir,
             lang           |-> merged_target.link_lang,
             heuristics     |-> TRUE,
             other_flags    |-> merged_target.all_other_flags,
             defines        |-> merged_target.all_defines,
             includes       |-> merged_target.all_includes,
             flags          |-> merged_target.all_flags]

\* A file on disk is [readable, decodable, lines]; a line is [directive, args]:
\* whether the stripped line starts with '#include', and the words after the first,
\* each an included file name with its delimiters cut off (splitten[1][1:-1]).
IncludedFiles(lines) ==
    LET sel == SelectSeq(lines, LAMBDA l : l.directive /\ Len(l.args) >= 1)
    IN [i \in DOMAIN sel |-> sel[i].args[1]]

\* A match_header in which no file fails to open or to decode.
MatchRaisesNever(file_info, dsk) == FALSE

\* open() raises IOError, reading raises UnicodeDecodeError (index.py:350).
MatchRaises(file_info, dsk) ==
    \/ file_info.path \notin DOMAIN dsk
    \/ ~dsk[file_info.path].readable
    \/ ~dsk[file_info.path].decodable

IsFile(f, dsk) == f \in DOMAIN dsk

\* include_directory + os.sep + included_file, made absolute.
HeaderPath(include_directory, included_file) ==
    [included_file EXCEPT !.dir = Abspath(include_directory) \o
        (IF IsAbs(included_file.dir) THEN Tail(included_file.dir) ELSE included_file.dir)]

\* The search of one included file on the include path, from its i-th directory on: the
\* header record, or NoneObj.
RECURSIVE SearchIncludePath(_, _, _, _, _)
SearchIncludePath(dirs, i, included_file, file_info, dsk) ==
    IF i > Len(dirs) THEN NoneObj
    ELSE IF IsFile(JoinFile(dirs[i], included_file), dsk)
         THEN [source_file |-> file_info.path] @@
              [file_info EXCEPT !.heuristics = TRUE,
                                !.path = HeaderPath(dirs[i], included_file)]
         ELSE SearchIncludePath(dirs, i + 1, included_file, file_info, dsk)

\* The loop over the included files (index.py:366-382): a file whose name does not
\* match is passed over; the first whose name matches decides the result.
RECURSIVE MatchIncluded(_, _, _, _)
MatchIncluded(included_files, i, file_info, dsk) ==
    IF i > Len(included_files) THEN NoneObj
    ELSE IF file_info.path.stem # included_files[i].stem
         THEN MatchIncluded(included_files, i + 1, file_info, dsk)
         ELSE SearchIncludePath(<<Cwd>> \o file_info.includes, 1, included_files[i], file_info, dsk)

MatchHeader(file_info, dsk) ==
    MatchIncluded(IncludedFiles(dsk[file_info.path].lines), 1, file_info, dsk)

\* new_files, as the (key, value) pairs in the order they are assigned, for the known
\* files from the i-th on.
RECURSIVE MatchFrom(_, _, _)
MatchFrom(known, i, dsk) ==
    IF i > Len(known) THEN <<>>
    ELSE LET file == known[i]
             rest == MatchFrom(known, i + 1, dsk)
         IN IF MatchRaises(file, dsk) THEN rest
            ELSE LET header == MatchHeader(file, dsk)
                 IN IF header = NoneObj THEN rest
                    ELSE << <<header.path, header>>,
                            <<file.path, [header_file |-> header.path] @@ file>> >> \o rest

RunMatchingHeaderHeuristics(known, dsk) == MatchFrom(known, 1, dsk)

-----------------------------------------------------------------------------
(* The inputs: the codemodels the server may report and the files on disk *)

\* How many paths unknown to the codemodel get a record by directory heuristics.
MaxBackfill == 2

File(d, s, e) == [dir |-> d, stem |-> s, ext |-> e]

ProjectDir == <<"/", "p">>
SrcDir == <<"/", "p", "src">>
LibDir == <<"/", "p", "lib">>
IncDir == <<"/", "p", "inc">>
TmpDir == <<"/", "tmp">>

\* The sources a target may list: relative to its source directory, or absolute.
Candidates ==
    << File(<<"src">>, "foo", "cpp"), File(<<"src">>, "foo", "hpp"),
       File(<<"src">>, "bar", "cpp"), File(LibDir, "foo", "cpp") >>

Owners == [DOMAIN Candidates -> {"A", "B", "-"}]

OwnerChoices ==
    {o \in Owners : o[1] = "A" /\ o[2] \in {"A", "-"} /\ o[4] \in {"B", "-"}}

CompileGroup(name, sources) ==
    IF name = "A"
    THEN [language |-> "CXX", sources |-> sources,
          compileFlags |-> <<"-O2", " ", "-g">>,
          defines |-> <<"DA", "N=1">>,
          includePath |-> << [path |-> <<"src">>], [path |-> IncDir, isSystem |-> TRUE] >>]
    ELSE [language |-> "CXX", sources |-> sources,
          compileFlags |-> <<"-Wall">>,
          includePath |-> << [path |-> SrcDir, isSystem |-> FALSE] >>]

\* cmake reports the headers of a target in a file group without a language.
HeaderGroup(sources) == [sources |-> sources]

TargetJson(name, owner) ==
    LET mine(ext) == SelectSeq(Candidates, LAMBDA f :
                        f.ext = ext /\ \E i \in DOMAIN Candidates : Candidates[i] = f /\ owner[i] = name)
    IN [name |-> name,
        type |-> IF name = "A" THEN "EXECUTABLE" ELSE "STATIC_LIBRARY",
        sourceDirectory |-> ProjectDir,
        buildDirectory |-> ProjectDir \o <<"build">>,
        linkerLanguage |-> "CXX",
        fullName |-> name,
        fileGroups |-> (IF mine("cpp") = <<>> THEN <<>> ELSE <<CompileGroup(name, mine("cpp"))>>)
                       \o (IF mine("hpp") = <<>> THEN <<>> ELSE <<HeaderGroup(mine("hpp"))>>)]

\* A target the converter leaves out: a custom target or an interface library, with
\* the sources cmake lists for it.
ToolsDir == <<"/", "p", "tools">>

ExcludedTypes == {"UTILITY", "INTERFACE_LIBRARY"}

UtilityJson(type) ==
    [name |-> "U",
     type |-> type,
     sourceDirectory |-> ProjectDir,
     buildDirectory |-> ProjectDir \o <<"build">>,
     fileGroups |-> << HeaderGroup(<< File(<<"tools">>, "gen", "cpp") >>) >>]

Codemodel(owner, utype) ==
    << [name |-> "P", sourceDirectory |-> ProjectDir, buildDirectory |-> ProjectDir \o <<"build">>,
        targets |-> <<TargetJson("A", owner), UtilityJson(utype), TargetJson("B", owner)>>] >>

\* The codemodel with one more file group, without sources, in the targets named.
WithEmptyGroup(projects_json, names) ==
    [i \in DOMAIN projects_json |->
        [projects_json[i] EXCEPT !.targets =
            [j \in DOMAIN @ |->
                IF @[j].name \in names
                THEN [@[j] EXCEPT !.fileGroups = @ \o <<HeaderGroup(<<>>)>>]
                ELSE @[j]]]]

Include(f) == [directive |-> TRUE, args |-> <<f>>]

\* The text of the sources named foo.cpp.
SourceTexts ==
    { << [directive |-> FALSE, args |-> <<>>] >>,
      << [directive |-> TRUE, args |-> <<>>], Include(File(<<>>, "bar", "hpp")),
         [directive |-> FALSE, args |-> <<>>], Include(File(<<>>, "foo", "hpp")) >>,
      << Include(File(<<"sub">>, "foo", "hpp")), Include(File(<<>>, "foo", "hpp")) >> }

Headers == {File(SrcDir, "foo", "hpp"), File(IncDir, "foo", "hpp")}

Text(lines) == [readable |-> TRUE, decodable |-> TRUE, lines |-> lines]

\* Every source the codemodel lists is on disk, with the headers of hdrs.
Disk(owner, hdrs, text) ==
    LET listed == {JoinFile(ProjectDir, Candidates[i]) : i \in {j \in DOMAIN Candidates : owner[j] # "-"}}
    IN [f \in listed \cup hdrs |->
            IF f.stem = "foo" /\ f.ext = "cpp" THEN Text(text) ELSE Text(<<>>)]

\* What makes a source fail in match_header: open() raises IOError for a file the
\* user cannot read, reading raises UnicodeDecodeError for one that is not text.
SourceFaults == {"none", "IOError", "UnicodeDecodeError"}

\* The disk with the file f damaged in that way.
Damaged(dsk, f, fault) ==
    IF fault = "none" \/ f \notin DOMAIN dsk THEN dsk
    ELSE [dsk EXCEPT ![f].readable = (fault # "IOError"),
                     ![f].decodable = (fault # "UnicodeDecodeError")]

CacheJson ==
    << [key |-> "CMAKE_CXX_COMPILER", value |-> "/usr/bin/c++", type |-> "FILEPATH"],
       [key |-> "CMAKE_BUILD_TYPE", value |-> "Debug", type |-> "STRING"] >>

TreePairs == { <<ProjectDir, ProjectDir \o <<"build">> >> }

UnknownPaths == {File(SrcDir, "new", "cpp"), File(LibDir, "new", "cpp"), File(TmpDir, "x", "cpp")}

QueryPaths ==
    {JoinFile(ProjectDir, Candidates[i]) : i \in DOMAIN Candidates} \cup Headers \cup UnknownPaths
    \cup {File(ToolsDir, "gen", "cpp")}

TargetNames == {"A", "B", "A|B", "U"}

-----------------------------------------------------------------------------
(* The index: index.py, class Index.  The plugin registers an index, and so queries  *)
(* it, only after initialize has returned (__init__.py:413-415).                    *)

NoCall == [op |-> "none"]

\* Index.__init__
IndexConstructed ==
    /\ phase = "constructed"
    /\ \E pair \in TreePairs : root_directory = pair[1] /\ build_directory = pair[2]
    /\ projects = <<>>
    /\ targets = <<>>
    /\ targetOrder = <<>>
    /\ files = <<>>
    /\ fileOrder = <<>>
    /\ cache = <<>>
    /\ ret = NoCall

\* CmakeServer.__init__
InitServer ==
    /\ self_root_dir = None
    /\ self_build_dir = None
    /\ socket_path = None
    /\ process = None
    /\ returncode = None
    /\ socket = None
    /\ proc = "none"
    /\ status = None
    /\ listening = FALSE
    /\ sockFile = FALSE
    /\ greeted = FALSE
    /\ inbox = <<>>
    /\ pending = <<>>
    /\ handshakes = 0
    /\ noise = 0
    /\ pc = "idle"
    /\ invoked = NoCall
    /\ err = "ok"
    /\ errText = None
    /\ reply = NoneObj
    /\ lastFrame = NoneObj
    /\ tries = 0
    /\ sleeps = 0
    /\ disposals = 0

\* Plugin.__init__: no server, no index, no build directory in use.
PluginConstructed ==
    /\ servers = <<>>
    /\ index = <<>>
    /\ indexOrder = <<>>
    /\ used_build_dirs = <<>>
    /\ buffers = <<>>
    /\ bufvars = <<>>
    /\ conns = <<>>
    /\ inits = 0
    /\ pret = NoCall

\* A plugin nothing has called, with the default options and no build directory
\* configured.
InitPluginIdle ==
    /\ PluginConstructed
    /\ persistent_server = 1
    /\ cachetxt = {}

\* No update_buffer_variables is in progress and FlagsForFile has not been called.
NoUpdate ==
    /\ upd = [pc |-> "idle", n |-> 0, j |-> 1, k |-> 1, configured |-> FALSE]
    /\ wrote = <<>>
    /\ ycm = [pc |-> "uncalled", configured |-> FALSE, by |-> 0, next |-> None, nextBy |-> 0]

\* Nothing has been written to the socket.
InitWire ==
    /\ sockLines = <<>>
    /\ framesWritten = <<>>
    /\ framesRead = <<>>

\* The files the conversion of the codemodel produces, in order (index.py:60-68).
ConvertedFiles ==
    Flatten([i \in DOMAIN codemodel |->
        ConvertProjectInfo(codemodel[i], root_directory, build_directory).files])

\* An initialize that skips the loop over the targets of the projects.
NoTargetPairs(projs) == <<>>

\* The (key, value) pairs a loop over the projects inserts into a dict.
TargetPairs(projs) ==
    Flatten([i \in DOMAIN projs |->
        [j \in DOMAIN projs[i].targetNames |->
            <<projs[i].targetNames[j], projs[i].targets[projs[i].targetNames[j]]>>]])

FilePairs(projs) ==
    Flatten([i \in DOMAIN projs |->
        [j \in DOMAIN projs[i].files |-> <<projs[i].files[j].path, projs[i].files[j]>>]])

Values(dict, order) == [i \in DOMAIN order |-> dict[order[i]]]

\* Index.initialize.  A project record keeps the names of its targets and the paths of
\* its files: the target dicts it holds are the very objects of Index._targets.  (The
\* intermediate values are bound by \E, each to the one value it has.)
Initialize ==
    /\ phase = "constructed"
    /\ IF \E i \in DOMAIN codemodel : ProjectRaises(codemodel[i])
       THEN /\ ret' = [op |-> "initialize", raised |-> "IndexError"]
            /\ UNCHANGED <<phase, projects, targets, targetOrder, files, fileOrder, cache>>
       ELSE \E projs \in {<<>> \o [i \in DOMAIN codemodel |->
                            ConvertProjectInfo(codemodel[i], root_directory, build_directory)]} :
            \E targetKVs \in {TargetPairs(projs)}, fileKVs \in {FilePairs(projs)} :
            \E files0 \in {DictOf(fileKVs)}, order0 \in {OrderPutAll(<<>>, {}, Keys(fileKVs))} :
            \E newKVs \in {RunMatchingHeaderHeuristics(<<>> \o Values(files0, order0), disk)} :
               /\ projects' = DictOf([i \in DOMAIN projs |->
                                <<projs[i].name,
                                  [k \in DOMAIN projs[i] \ {"targets", "files"} |-> projs[i][k]]>>])
               /\ targets' = DictOf(targetKVs)
               /\ targetOrder' = OrderPutAll(<<>>, {}, Keys(targetKVs))
               /\ files' = DictOf(fileKVs \o newKVs)
               /\ fileOrder' = OrderPutAll(order0, DOMAIN files0, Keys(newKVs))
               /\ cache' = ConvertCacheVariables(CacheJson)
               /\ phase' = "initialized"
               /\ ret' = [op |-> "initialize", raised |-> None]
    /\ UNCHANGED <<codemodel, disk, root_directory, build_directory>>
    /\ UNCHANGED <<svars, wvars, pvars, yvars>>

\* The targets, among those that are target records, with a file in the directory.
OwnersOf(abs_directory) ==
    {n \in DOMAIN targets : "filepaths" \in DOMAIN targets[n]
                             /\ abs_directory \in TargetDirectories(targets[n])}

Backfilled == {f \in DOMAIN files : files[f].heuristics /\ "source_file" \notin DOMAIN files[f]}

\* Index.query_file
QueryFile(abs_path, directory_heuristics) ==
    LET call == [op |-> "query_file", arg |-> abs_path, heur |-> directory_heuristics,
                 known |-> abs_path \in DOMAIN files, owners |-> OwnersOf(Dirname(abs_path)),
                 scanned |-> FALSE, raised |-> None, value |-> NoneObj]
    IN
    /\ phase = "initialized"
    /\ abs_path \in DOMAIN files \/ Cardinality(Backfilled) < MaxBackfill
    /\ UNCHANGED <<phase, codemodel, disk, projects, cache, root_directory, build_directory>>
    /\ UNCHANGED <<svars, wvars, pvars, yvars>>
    /\ IF abs_path \in DOMAIN files
       THEN /\ ret' = [call EXCEPT !.value = files[abs_path]]
            /\ UNCHANGED <<targets, targetOrder, files, fileOrder>>
       ELSE IF ~directory_heuristics
       THEN /\ ret' = call
            /\ UNCHANGED <<targets, targetOrder, files, fileOrder>>
       ELSE IF DirectoryScanRaises(targets)
       THEN /\ ret' = [call EXCEPT !.scanned = TRUE, !.raised = "KeyError"]
            /\ UNCHANGED <<targets, targetOrder, files, fileOrder>>
       ELSE LET result == GetFileInfoForDirectory(abs_path, targets, targetOrder)
            IN IF result = NoneObj
               THEN /\ ret' = [call EXCEPT !.scanned = TRUE]
                    /\ UNCHANGED <<targets, targetOrder, files, fileOrder>>
               ELSE /\ files' = (abs_path :> result) @@ files
                    /\ fileOrder' = OrderPut(fileOrder, DOMAIN files, abs_path)
                    /\ IF result.target_name \notin DOMAIN targets
                       THEN \* the new dict() has no 'filepaths' to append to
                            /\ targets' = (result.target_name :> EmptyDict) @@ targets
                            /\ targetOrder' = Append(targetOrder, result.target_name)
                            /\ ret' = [call EXCEPT !.scanned = TRUE, !.raised = "KeyError"]
                       ELSE /\ targets' = [targets EXCEPT ![result.target_name].filepaths =
                                                Append(@, result.path)]
                            /\ targetOrder' = targetOrder
                            /\ ret' = [call EXCEPT !.scanned = TRUE, !.value = result]

\* A lookup that takes the target out of the map, as dict.pop would.
QueryTargetPop(name) ==
    /\ phase = "initialized"
    /\ ret' = [op |-> "query_target", arg |-> name, raised |-> None,
               value |-> Get(targets, name, NoneObj)]
    /\ targets' = [n \in DOMAIN targets \ {name} |-> targets[n]]
    /\ targetOrder' = SelectSeq(targetOrder, LAMBDA n : n # name)
    /\ UNCHANGED <<phase, codemodel, disk, projects, files, fileOrder,
                   cache, root_directory, build_directory>>
    /\ UNCHANGED <<svars, wvars, pvars, yvars>>

\* Index.query_target
QueryTarget(name) ==
    /\ phase = "initialized"
    /\ ret' = [op |-> "query_target", arg |-> name, raised |-> None,
               value |-> Get(targets, name, NoneObj)]
    /\ UNCHANGED <<phase, codemodel, disk, projects, targets, targetOrder, files, fileOrder,
                   cache, root_directory, build_directory>>
    /\ UNCHANGED <<svars, wvars, pvars, yvars>>

\* Index.query_project
QueryProject(name) ==
    /\ phase = "initialized"
    /\ ret' = [op |-> "query_project", arg |-> name, raised |-> None,
               value |-> Get(projects, name, NoneObj)]
    /\ UNCHANGED <<phase, codemodel, disk, projects, targets, targetOrder, files, fileOrder,
                   cache, root_directory, build_directory>>
    /\ UNCHANGED <<svars, wvars, pvars, yvars>>

\* Index.cache_variable
CacheVariable(name) ==
    /\ phase = "initialized"
    /\ ret' = [op |-> "cache_variable", arg |-> name, raised |-> None,
               value |-> Get(cache, name, None)]
    /\ UNCHANGED <<phase, codemodel, disk, projects, targets, targetOrder, files, fileOrder,
                   cache, root_directory, build_directory>>
    /\ UNCHANGED <<svars, wvars, pvars, yvars>>

\* The '{compiler} {flags} -c {source} -o {object_}' of a file record, as its fields.
Command(file) ==
    [compiler |-> Get(cache, "CMAKE_" \o file.lang \o "_COMPILER", None),
     flags    |-> file.flags,
     source   |-> file.path,
     object_  |-> file.object_file]

\* Plugin.generate_compilation_database on the index: one record for every value of
\* Index._files, in its order.  file['object_file'] of a record without that key
\* raises KeyError.
GenerateCompilationDatabase ==
    /\ phase = "initialized"
    /\ ret' = IF \E f \in DOMAIN files : "object_file" \notin DOMAIN files[f]
              THEN [op |-> "generate_compilation_database", raised |-> "KeyError"]
              ELSE [op |-> "generate_compilation_database", raised |-> None,
                    records |-> [i \in DOMAIN fileOrder |->
                        [directory |-> files[fileOrder[i]].tree_build_dir,
                         file      |-> files[fileOrder[i]].path,
                         command   |-> Command(files[fileOrder[i]])]]]
    /\ UNCHANGED <<phase, codemodel, disk, projects, targets, targetOrder, files, fileOrder,
                   cache, root_directory, build_directory>>
    /\ UNCHANGED <<svars, wvars, pvars, yvars>>

NextIndex ==
    \/ Initialize
    \/ GenerateCompilationDatabase
    \/ \E p \in QueryPaths, h \in BOOLEAN : QueryFile(p, h)
    \/ \E n \in TargetNames : QueryTarget(n)
    \/ \E n \in {"P", "Q"} : QueryProject(n)
    \/ \E n \in {"CMAKE_CXX_COMPILER", "CMAKE_None_COMPILER"} : CacheVariable(n)

\* A constructed index, a codemodel the server may report for the project and the
\* project's files on disk; a client that has not been started.
InitIndex ==
    /\ IndexConstructed
    /\ \E o \in OwnerChoices, utype \in ExcludedTypes, hdrs \in SUBSET Headers, text \in SourceTexts :
            /\ \E names \in {{}, {"B"}} : codemodel = WithEmptyGroup(Codemodel(o, utype), names)
            /\ \E fault \in SourceFaults :
                    disk = Damaged(Disk(o, hdrs, text), File(SrcDir, "foo", "cpp"), fault)
    /\ InitServer
    /\ InitWire
    /\ NoUpdate
    /\ InitPluginIdle

SpecIndex == InitIndex /\ [][NextIndex]_vars

-----------------------------------------------------------------------------
(* Properties of the index *)

\* The targets named in owners, in the order of Index._targets.
Members(owners) ==
    LET names == SelectSeq(targetOrder, LAMBDA n : n \in owners)
    IN [i \in DOMAIN names |-> targets[names[i]]]

\* The last call was query_file, with directory heuristics, for a path the index did
\* not know, in a directory that held files of the targets counted by the argument.
FirstQueryIn(count) ==
    /\ ret.op = "query_file"
    /\ ret.heur
    /\ ~ret.known
    /\ Cardinality(ret.owners) \in count

\* C1: every File record the conversion of the codemodel produced is what query_file
\* returns for its path, field by field (heuristics false, flags as converted), after
\* initialize and after any later queries; no header-matching or directory-heuristic
\* record takes its place.
C1_ConvertedRecordReturned ==
    phase = "initialized" =>
        \A i \in DOMAIN ConvertedFiles :
            LET f == ConvertedFiles[i]
            IN /\ f.path \in DOMAIN files
               /\ \A k \in DOMAIN f : k \in DOMAIN files[f.path] /\ files[f.path][k] = f[k]
               /\ (ret.op = "query_file" /\ ret.arg = f.path) =>
                    /\ ret.raised = None
                    /\ \A k \in DOMAIN f : k \in DOMAIN ret.value /\ ret.value[k] = f[k]

\* C2: the first query_file for an unknown path in a directory with files of more than
\* one target returns, without raising, a record attributed to one squashed target,
\* named after its members, whose aggregated lists are the members' lists concatenated
\* in target order; query_target then returns that squashed target.
C2_SquashedTargetReturned ==
    FirstQueryIn({2, 3}) =>
        /\ ret.raised = None
        /\ ret.value # NoneObj
        /\ ret.value.target_name = JoinNames(Members(ret.owners), 1)
        /\ ret.value.target_name \in DOMAIN targets
        /\ LET squashed == targets[ret.value.target_name]
               members == Members(ret.owners)
           IN /\ "squashed" \in DOMAIN squashed
              /\ squashed.squashed
              /\ squashed.all_includes = Flatten([i \in DOMAIN members |-> members[i].all_includes])
              /\ squashed.all_defines = Flatten([i \in DOMAIN members |-> members[i].all_defines])
              /\ squashed.all_other_flags = Flatten([i \in DOMAIN members |-> members[i].all_other_flags])
              /\ squashed.all_flags = Flatten([i \in DOMAIN members |-> members[i].all_flags])

\* C3: the first query_file for an unknown path in a directory with files of exactly
\* one target stores and returns a heuristic record; a later query_file for a known
\* path returns the stored record and does not scan the directories again.
C3_SingleTargetMemoized ==
    /\ FirstQueryIn({1}) =>
        /\ ret.raised = None
        /\ ret.value # NoneObj
        /\ ret.value.heuristics
        /\ ret.arg \in DOMAIN files
        /\ files[ret.arg] = ret.value
    /\ (ret.op = "query_file" /\ ret.known) =>
        /\ ~ret.scanned
        /\ ret.value = files[ret.arg]

\* C11: the compilation database built from an initialized index, after any queries,
\* is built without an exception and holds exactly one record for every File of the
\* index, in the order of the File map, with the File's build tree as directory and
\* the File's path as file and as the source of the command.
C11_DatabaseComplete ==
    ret.op = "generate_compilation_database" =>
        /\ ret.raised = None
        /\ Len(ret.records) = Len(fileOrder)
        /\ \A i \in DOMAIN fileOrder :
            /\ ret.records[i].file = fileOrder[i]
            /\ ret.records[i].directory = files[fileOrder[i]].tree_build_dir
            /\ ret.records[i].command.source = fileOrder[i]

\* The included file is named like the source and is a file under a directory of the
\* source's include path.
Resolving(f) ==
    IF MatchRaises(f, disk) THEN {}
    ELSE LET included_files == IncludedFiles(disk[f.path].lines)
         IN {HeaderPath(f.includes[d], included_files[n]) :
                <<n, d>> \in {x \in (DOMAIN included_files) \X (DOMAIN f.includes) :
                    /\ included_files[x[1]].stem = f.path.stem
                    /\ IsFile(JoinFile(f.includes[x[2]], included_files[x[1]]), disk)}}

\* C10: for every converted source with an include directive named like the source that
\* resolves to a file on the source's include path, the built index holds a record
\* for such a header with heuristics true, source_file the source's path and the
\* source's flags, and the source's record names it as header_file.
C10_HeaderMatched ==
    phase = "initialized" =>
        \A i \in DOMAIN ConvertedFiles :
            LET f == ConvertedFiles[i]
            IN Resolving(f) # {} =>
                \E h \in Resolving(f) :
                    /\ h \in DOMAIN files
                    /\ files[h].heuristics
                    /\ "source_file" \in DOMAIN files[h]
                    /\ files[h].source_file = f.path
                    /\ files[h].flags = f.flags
                    /\ "header_file" \in DOMAIN files[f.path]
                    /\ files[f.path].header_file = h

\* The targets of the codemodel, of every project.
RawTargets ==
    UNION {Range(Get(codemodel[i], "targets", <<>>)) : i \in DOMAIN codemodel}

\* The absolute path of a source listed by a target of the codemodel.
ListedPath(target_json, filename) ==
    IF IsAbs(filename.dir) THEN filename
    ELSE JoinFile(Abspath(target_json.sourceDirectory), filename)

\* C12: a target of type UTILITY or INTERFACE_LIBRARY of the codemodel is no key of the
\* Target map, no File record names it as its target, and none of the sources it lists
\* has a File record, after initialize and after any later queries.
C12_ExcludedTargetsAbsent ==
    phase = "initialized" =>
        \A t \in RawTargets :
            t.type \in ExcludedTypes =>
                /\ t.name \notin DOMAIN targets
                /\ t.name \notin Range(targetOrder)
                /\ \A f \in DOMAIN files : files[f].target_name # t.name
                /\ \A g \in DOMAIN t.fileGroups : \A n \in DOMAIN t.fileGroups[g].sources :
                        ListedPath(t, t.fileGroups[g].sources[n]) \notin DOMAIN files

\* A source of an interface library of the codemodel was queried with directory
\* heuristics and is unknown.
C12_ExcludedSourceUnknown ==
    /\ phase = "initialized"
    /\ \E t \in RawTargets :
        /\ t.type = "INTERFACE_LIBRARY"
        /\ ret.op = "query_file"
        /\ ret.heur
        /\ ret.arg = ListedPath(t, t.fileGroups[1].sources[1])
        /\ ret.raised = None
        /\ ret.value = NoneObj

\* C13: query_file for a path that is not in the File map returns None without an
\* exception and leaves the File map and the Target map as they were, when no target
\* has a file in the directory of the path or when directory heuristics are disabled.
C13_MissReturnsUnknown ==
    [][\A p \in QueryPaths, h \in BOOLEAN :
        (/\ QueryFile(p, h)
         /\ p \notin DOMAIN files
         /\ ~h \/ OwnersOf(Dirname(p)) = {})
        => /\ ret'.raised = None
           /\ ret'.value = NoneObj
           /\ UNCHANGED <<files, fileOrder, targets, targetOrder>>]_vars

\* The flags list the words of the free-form flags, then -D and a define for every
\* define, then for every include directory -isystem or -I and the directory.
FlagsInOrder(flags, group_json, target_json) ==
    LET words    == Split(Get(group_json, "compileFlags", <<>>))
        defines  == Get(group_json, "defines", <<>>)
        includes == Get(group_json, "includePath", <<>>)
        nW == Len(words)
        nD == Len(defines)
    IN /\ Len(flags) = nW + nD + 2 * Len(includes)
       /\ \A i \in 1..nW : flags[i] = <<words[i]>>
       /\ \A i \in 1..nD : flags[nW + i] = <<"-D" \o defines[i]>>
       /\ \A i \in DOMAIN includes :
            /\ flags[nW + nD + 2 * i - 1] =
                    <<IF "isSystem" \in DOMAIN includes[i] /\ includes[i].isSystem
                      THEN "-isystem" ELSE "-I">>
            /\ flags[nW + nD + 2 * i] =
                    (IF IsAbs(includes[i].path) THEN includes[i].path
                     ELSE Abspath(target_json.sourceDirectory) \o includes[i].path)

\* C14: the flag list of every converted File is the free-form flags of its file group,
\* then one -D<define> for every define in input order, then the include flags in
\* includePath order; the record the index holds for a listed source that header
\* matching has not replaced has the same list as a second conversion of its group.
C14_FlagsInFixedOrder ==
    phase = "initialized" =>
        \A t \in RawTargets :
            t.type \notin ExcludedTypes =>
                \A g \in DOMAIN t.fileGroups : \A n \in DOMAIN t.fileGroups[g].sources :
                    LET path == ListedPath(t, t.fileGroups[g].sources[n])
                        again == ConvertFileInfo(t.fileGroups[g], targets[t.name])[n]
                    IN /\ path \in DOMAIN files
                       /\ FlagsInOrder(again.flags, t.fileGroups[g], t)
                       /\ "source_file" \notin DOMAIN files[path] =>
                            /\ FlagsInOrder(files[path].flags, t.fileGroups[g], t)
                            /\ files[path].flags = again.flags

\* A converted File with free-form flags, defines and include directories, two or
\* more of each, was returned by query_file.
C14_AllThreeParts ==
    /\ phase = "initialized"
    /\ ret.op = "query_file"
    /\ ret.known
    /\ ~ret.value.heuristics
    /\ Len(ret.value.other_flags) >= 2
    /\ Len(ret.value.defines) >= 2
    /\ Len(ret.value.includes) >= 2
    /\ Len(ret.value.flags) = 8

\* The include directives of a readable source that are named like the source and
\* resolve to a file in the working directory or on the source's include path.
ResolvingDirectives(f) ==
    LET included_files == IncludedFiles(disk[f.path].lines)
        dirs == <<Cwd>> \o f.includes
    IN {n \in DOMAIN included_files :
            /\ included_files[n].stem = f.path.stem
            /\ \E d \in DOMAIN dirs : IsFile(JoinFile(dirs[d], included_files[n]), disk)}

\* The header the first of these directives resolves to.
FirstResolved(f) ==
    LET included_files == IncludedFiles(disk[f.path].lines)
        dirs == <<Cwd>> \o f.includes
        n == CHOOSE x \in ResolvingDirectives(f) : \A y \in ResolvingDirectives(f) : x <= y
        hits == {d \in DOMAIN dirs : IsFile(JoinFile(dirs[d], included_files[n]), disk)}
        d == CHOOSE x \in hits : \A y \in hits : x <= y
    IN HeaderPath(dirs[d], included_files[n])

\* C22: a readable source with include directives named like it is paired with the
\* first such directive that resolves to an existing file, also when an earlier
\* directive named like it does not resolve.
C22_FirstResolvingDirectivePaired ==
    phase = "initialized" =>
        \A i \in DOMAIN ConvertedFiles :
            LET f == ConvertedFiles[i]
            IN (~MatchRaises(f, disk) /\ ResolvingDirectives(f) # {}) =>
                    /\ "header_file" \in DOMAIN files[f.path]
                    /\ files[f.path].header_file = FirstResolved(f)

\* a is b, or b with elements appended.
IsPrefix(a, b) == Len(a) <= Len(b) /\ SubSeq(b, 1, Len(a)) = a

\* C23: a query_file, query_target, query_project or cache_variable call on an
\* initialized index removes no File, Target or Project key and changes no field of an
\* existing File record or of a Project; a Target changes only by a path appended to
\* its file list; and only query_file with directory heuristics changes anything.
C23_QueriesOnlyAdd ==
    [][phase = "initialized" =>
        /\ projects' = projects
        /\ DOMAIN files \subseteq DOMAIN files'
        /\ \A f \in DOMAIN files : files'[f] = files[f]
        /\ IsPrefix(fileOrder, fileOrder')
        /\ DOMAIN targets \subseteq DOMAIN targets'
        /\ IsPrefix(targetOrder, targetOrder')
        /\ \A n \in DOMAIN targets :
            \/ targets'[n] = targets[n]
            \/ /\ "filepaths" \in DOMAIN targets[n]
               /\ IsPrefix(targets[n].filepaths, targets'[n].filepaths)
               /\ targets'[n] = [targets[n] EXCEPT !.filepaths = targets'[n].filepaths]
        /\ (files' # files \/ targets' # targets) =>
                ret'.op = "query_file" /\ ret'.heur /\ ~ret'.known]_vars

\* C23: queries with directory heuristics have added two File entries, a Target entry
\* and a path to the file list of a Target of the codemodel.
C23_EntriesAdded ==
    /\ phase = "initialized"
    /\ Cardinality(Backfilled) = 2
    /\ \E n \in DOMAIN targets : targets[n] = EmptyDict
    /\ \E n \in DOMAIN targets, f \in Backfilled :
            "filepaths" \in DOMAIN targets[n] /\ f \in Range(targets[n].filepaths)


\* C24: every File record with heuristics = false names an owning target that is a key
\* of the Target map: in the conversion of each project the files name targets of that
\* project, which initialize inserts before the project's files (index.py:65-68), and
\* the name stays a key in every later state of the index.
C24_ConvertedFilesOwned ==
    /\ phase = "initialized" =>
            \A f \in DOMAIN files : ~files[f].heuristics => files[f].target_name \in DOMAIN targets
    /\ (phase = "initialized" /\ ret.op = "initialize") =>
            \A i \in DOMAIN codemodel :
                \E proj \in {ConvertProjectInfo(codemodel[i], root_directory, build_directory)} :
                    \A j \in DOMAIN proj.files :
                        /\ ~proj.files[j].heuristics
                        /\ proj.files[j].target_name \in DOMAIN proj.targets
                        /\ proj.files[j].target_name \in Range(proj.targetNames)

\* Converted files of both targets in an index that queries have added entries to.
C24_OwnedAfterQueries ==
    /\ phase = "initialized"
    /\ \E f, g \in DOMAIN files :
            /\ ~files[f].heuristics /\ files[f].target_name = "A"
            /\ ~files[g].heuristics /\ files[g].target_name = "B"
    /\ Backfilled # {}
    /\ "A|B" \in DOMAIN targets

\* C25: the index keeps the (root directory, build directory) pair it was constructed
\* with, and every Project, Target and File record it holds, converted or heuristic,
\* carries tree_root_dir and tree_build_dir equal to that pair.
CarriesTreePair(record) ==
    /\ "tree_root_dir" \in DOMAIN record /\ "tree_build_dir" \in DOMAIN record
    /\ record.tree_root_dir = root_directory
    /\ record.tree_build_dir = build_directory

C25_RecordsCarryTreePair ==
    /\ <<root_directory, build_directory>> \in TreePairs
    /\ \A n \in DOMAIN projects : CarriesTreePair(projects[n])
    /\ \A n \in DOMAIN targets : CarriesTreePair(targets[n])
    /\ \A f \in DOMAIN files : CarriesTreePair(files[f])

\* C26: a source that cannot be read or decoded never fails the index build:
\* initialize completes, the source keeps its converted record without a header_file,
\* no header record names it as source_file, and every other known file that matches
\* a header is paired.
Unreadable(path) == ~disk[path].readable \/ ~disk[path].decodable

C26_UnreadableSourceSkipped ==
    (ret.op = "initialize" /\ \A i \in DOMAIN codemodel : ~ProjectRaises(codemodel[i])) =>
        /\ ret.raised = None
        /\ phase = "initialized"
        /\ \E known \in {ConvertedFiles} :
            \A i \in DOMAIN known :
                IF Unreadable(known[i].path)
                THEN /\ known[i].path \in DOMAIN files
                     /\ files[known[i].path] = known[i]
                     /\ "header_file" \notin DOMAIN files[known[i].path]
                     /\ \A h \in DOMAIN files :
                            "source_file" \in DOMAIN files[h] => files[h].source_file # known[i].path
                ELSE \E header \in {MatchHeader(known[i], disk)} :
                        header # NoneObj =>
                            /\ "header_file" \in DOMAIN files[known[i].path]
                            /\ files[known[i].path].header_file = header.path
                            /\ header.path \in DOMAIN files
                            /\ "source_file" \in DOMAIN files[header.path]

\* The build completed although /p/src/foo.cpp, whose text includes its header, could
\* not be opened, and /p/lib/foo.cpp, met after it, was paired with its header.
C26_SkippedAndPaired ==
    /\ ret.op = "initialize" /\ ret.raised = None /\ phase = "initialized"
    /\ ~disk[File(SrcDir, "foo", "cpp")].readable
    /\ "header_file" \notin DOMAIN files[File(SrcDir, "foo", "cpp")]
    /\ File(LibDir, "foo", "cpp") \in DOMAIN files
    /\ "header_file" \in DOMAIN files[File(LibDir, "foo", "cpp")]

\* The same for a source that is not text.
C26_UndecodableSkipped ==
    /\ ret.op = "initialize" /\ ret.raised = None /\ phase = "initialized"
    /\ ~disk[File(SrcDir, "foo", "cpp")].decodable
    /\ "header_file" \notin DOMAIN files[File(SrcDir, "foo", "cpp")]

\* C27: for every target of the codemodel that is not excluded the conversion succeeds,
\* its aggregated lists are its file groups' lists concatenated in file-group order and
\* its filepaths are the files of all its groups, for any number of file groups and
\* any number of sources in a group, zero included.
Aggregated(target_json, target) ==
    \E groups \in {Get(target_json, "fileGroups", <<>>)} :
        /\ target.all_defines = Flatten([g \in DOMAIN groups |-> Get(groups[g], "defines", <<>>)])
        /\ target.all_other_flags =
                Flatten([g \in DOMAIN groups |-> Split(Get(groups[g], "compileFlags", <<>>))])
        /\ target.all_includes =
                Flatten([g \in DOMAIN groups |->
                    [k \in DOMAIN Get(groups[g], "includePath", <<>>) |->
                        IncludeDir(groups[g].includePath[k], target)]])
        /\ target.all_flags = Flatten([g \in DOMAIN groups |-> FileFlags(groups[g], target)])
        /\ target.filepaths =
                Flatten([g \in DOMAIN groups |->
                    [k \in DOMAIN groups[g].sources |->
                        IF IsAbs(groups[g].sources[k].dir) THEN groups[g].sources[k]
                        ELSE JoinFile(target.source_dir, groups[g].sources[k])]])

C27_TargetsAggregated ==
    ret.op = "initialize" =>
        /\ ret.raised = None
        /\ \A i \in DOMAIN codemodel : \A j \in DOMAIN codemodel[i].targets :
                ~Excluded(codemodel[i].targets[j]) =>
                    /\ codemodel[i].targets[j].name \in DOMAIN targets
                    /\ Aggregated(codemodel[i].targets[j], targets[codemodel[i].targets[j].name])

\* C29: after any sequence of query_file calls on an initialized index every value of
\* the Target map is a well-formed Target record, every File's target_name maps to
\* such a record, and a directory-heuristic query for an unknown path completes.
WellFormedTarget(target) ==
    {"name", "filepaths", "all_includes", "all_defines", "all_other_flags", "all_flags"}
        \subseteq DOMAIN target

C29_TargetsWellFormed ==
    phase = "initialized" =>
        /\ \A n \in DOMAIN targets : WellFormedTarget(targets[n])
        /\ \A f \in DOMAIN files :
                files[f].target_name \in DOMAIN targets
                    /\ WellFormedTarget(targets[files[f].target_name])
        /\ (ret.op = "query_file" /\ ret.heur /\ ~ret.known) => ret.raised = None
-----------------------------------------------------------------------------
(* The cmake-server client: server.py, class CmakeServer.  One client runs one     *)
(* subprocess: the plugin starts a client once, when it creates it                 *)
(* (__init__.py:548-557).                                                          *)

\* The retry limit of the wait for the socket file (server.py:90).
StartTries == 10

\* How often the model lets start sleep.
MaxSleeps == 11

\* How many signal, message and progress frames the model lets wait unread.
MaxNoise == 2

\* How often the model runs __del__ on one client.
MaxDispose == 2

Methods == {"handshake", "configure", "generate", "codemodel", "cache"}

\* The 'type' of the request a method sends.
MessageType(method) == IF method = "generate" THEN "compute" ELSE method

\* Whether the method returns the reply (generate, codemodel, cache) or nothing.
ReturnsReply(method) == method \in {"generate", "codemodel", "cache"}

Cookies == {"qwertyui", "asdfghjk"}

NoiseTypes == {"signal", "message", "progress"}

ErrorTexts == {"Waiting for type \"handshake\".", "CMake Error: configuration failed"}

Version(major, minor) == [major |-> major, minor |-> minor]

Hellos ==
    { [type |-> "hello", supportedProtocolVersions |-> v] :
        v \in { <<>>, <<Version(1, 0)>>, <<Version(2, 0)>>, <<Version(2, 0), Version(1, 2)>> } }

\* The same condition without its test of the returncode.
NotRunningUnrecorded == process = None \/ socket = None

\* The condition at the head of read_message and send_message.
NotRunning == process = None \/ socket = None \/ returncode # None

\* Popen.poll(): returncode after the call; the exit status of an exited child is
\* collected once, and the child is then reaped.
Polled == IF returncode # None THEN returncode
          ELSE IF proc = "zombie" THEN status ELSE None

Reaped == IF returncode = None /\ proc = "zombie" THEN "reaped" ELSE proc

\* A status check that never reports a crash.
CrashedNever(rc) == FALSE

\* check_server_status, given the returncode after its poll.
Crashed(rc) == rc # None /\ rc # "0"

\* A guard that lets every handshake through.
AlreadyHandshakenNever == FALSE

\* The guard at the head of handshake.
AlreadyHandshaken == self_root_dir # None \/ self_build_dir # None

\* A test that looks at the first version only.
Supports1xFirst(hello) ==
    /\ Len(hello.supportedProtocolVersions) > 0
    /\ hello.supportedProtocolVersions[1].major = 1

Supports1x(hello) ==
    \E i \in DOMAIN hello.supportedProtocolVersions : hello.supportedProtocolVersions[i].major = 1

\* A text that does not depend on the frame.
ErrorTextGeneric(resp_msg) == "Request failed."

\* The text of the CmakeError raised for an error frame.
ErrorText(resp_msg) == resp_msg.errorMessage

\* The record of a call: the method, what held when it was called, how the operation
\* before it ended, the cookie send_and_read gives the message, and the frames read.
Call(method) ==
    [op         |-> method,
     dead       |-> proc \in {"zombie", "reaped"} \/ process = None \/ socket = None,
     recorded   |-> process = None \/ socket = None \/ returncode # None,
     handshaken |-> self_root_dir # None \/ self_build_dir # None,
     pendingAtCall |-> Len(pending),
     after      |-> err,
     cookie     |-> None,
     reads      |-> 0]

\* What a finished or failed operation leaves of the calling thread.
Return(e, text, value) ==
    /\ pc' = "idle"
    /\ err' = e
    /\ errText' = text
    /\ reply' = value

\* The test of server.py:78.
StartedBefore == process # None \/ socket # None

\* CmakeServer.start, up to the wait for the socket file.  The returncode of a new
\* Popen object is None, so the test of server.py:86 never raises.  The subprocess is
\* a new one, with a new connection: nothing is listening, written or read yet.  On a
\* client that had a subprocess the model calls start once that subprocess has exited
\* and its socket file is gone.
StartCall(path) ==
    /\ pc = "idle"
    /\ disposals = 0
    /\ process # None \/ socket # None \/ proc = "none" \/ (proc \in {"zombie", "reaped"} /\ ~sockFile)
    /\ invoked' = Call("start")
    /\ lastFrame' = NoneObj
    /\ IF StartedBefore
       THEN /\ Return("AlreadyStarted", None, NoneObj)
            /\ UNCHANGED <<process, returncode, socket_path, proc, tries>>
            /\ UNCHANGED <<status, listening, greeted, inbox, pending, noise>>
       ELSE /\ process' = "Popen"
            /\ returncode' = None
            /\ proc' = "running"
            /\ socket_path' = path
            /\ tries' = 0
            /\ pc' = "start_wait"
            /\ err' = "running"
            /\ errText' = None
            /\ reply' = NoneObj
            /\ status' = None
            /\ listening' = FALSE
            /\ greeted' = FALSE
            /\ inbox' = <<>>
            /\ pending' = <<>>
            /\ noise' = 0
    /\ UNCHANGED <<self_root_dir, self_build_dir, socket, sockFile, handshakes, sleeps, disposals>>
    /\ UNCHANGED <<ivars, wvars, pvars, yvars>>

\* One turn of the loop of server.py:90-91: the body sleeps and leaves 'tries' alone.
StartSleep ==
    /\ pc = "start_wait"
    /\ tries < StartTries /\ ~sockFile
    /\ sleeps < MaxSleeps
    /\ sleeps' = sleeps + 1
    /\ UNCHANGED <<self_root_dir, self_build_dir, socket_path, process, returncode, socket,
                   proc, status, listening, sockFile, greeted, inbox, pending, handshakes,
                   pc, invoked, err, errText, reply, lastFrame, tries, disposals>>
    /\ UNCHANGED <<noise, ivars, wvars, pvars, yvars>>

\* The loop of server.py:90 ends, and with it the count of its turns.
StartLoopExit ==
    /\ pc = "start_wait"
    /\ ~(tries < StartTries /\ ~sockFile)
    /\ pc' = "start_check"
    /\ sleeps' = 0
    /\ UNCHANGED <<self_root_dir, self_build_dir, socket_path, process, returncode, socket,
                   proc, status, listening, sockFile, greeted, inbox, pending, handshakes,
                   invoked, err, errText, reply, lastFrame, tries, disposals>>
    /\ UNCHANGED <<noise, ivars, wvars, pvars, yvars>>

\* server.py:92-103: the poll, the two checks and the connection.
StartConnect ==
    /\ pc = "start_check"
    /\ returncode' = Polled
    /\ proc' = Reaped
    /\ IF Polled # None
       THEN /\ Return("StartupFailure", None, NoneObj)
            /\ UNCHANGED socket
       ELSE IF ~sockFile
       THEN /\ Return("StartupFailure", None, NoneObj)
            /\ UNCHANGED socket
       ELSE /\ socket' = "connected"
            /\ pc' = "start_hello"
            /\ UNCHANGED <<err, errText, reply>>
    /\ UNCHANGED <<self_root_dir, self_build_dir, socket_path, process, status, listening,
                   sockFile, greeted, inbox, pending, handshakes, invoked, lastFrame, tries,
                   sleeps, disposals>>
    /\ UNCHANGED <<noise, ivars, wvars, pvars, yvars>>

\* A caller that takes the first frame that is no error for the reply.
DeliverFirstFrame(frame) ==
    /\ lastFrame' = frame
    /\ invoked' = [invoked EXCEPT !.reads = @ + 1]
    /\ IF pc = "start_hello"
       THEN IF Supports1x(frame)
            THEN Return("ok", None, NoneObj)
            ELSE Return("UnsupportedProtocol", None, NoneObj)
       ELSE IF frame.type = "error"
       THEN Return("ServerRequestFailed", ErrorText(frame), NoneObj)
       ELSE Return("ok", None, IF ReturnsReply(invoked.op) THEN frame ELSE NoneObj)

\* What the caller of read_message does with the frame: start checks the hello
\* (server.py:104-111), send_and_read loops until a reply or an error (server.py:189-198).
Deliver(frame) ==
    /\ lastFrame' = frame
    /\ invoked' = [invoked EXCEPT !.reads = @ + 1]
    /\ IF pc = "start_hello"
       THEN IF Supports1x(frame)
            THEN Return("ok", None, NoneObj)
            ELSE Return("UnsupportedProtocol", None, NoneObj)
       ELSE IF frame.type = "reply"
       THEN Return("ok", None, IF ReturnsReply(invoked.op) THEN frame ELSE NoneObj)
       ELSE IF frame.type = "error"
       THEN Return("ServerRequestFailed", ErrorText(frame), NoneObj)
       ELSE UNCHANGED <<pc, err, errText, reply>>

\* CmakeServer.read_message, called by start and by send_and_read.  readline blocks
\* while the server runs and has written nothing; at the end of the stream of a server
\* that exited with status 0 it returns '' for ever, and the loop of server.py:163
\* does not end.
ReadMessage ==
    /\ pc \in {"start_hello", "request_read"}
    /\ NotRunning \/ proc # "running" \/ inbox # <<>>
    /\ IF NotRunning
       THEN /\ process' = None
            /\ socket' = None
            /\ Return("ServerNotRunning", None, NoneObj)
            /\ UNCHANGED <<returncode, proc, inbox, invoked, lastFrame>>
       ELSE /\ returncode' = Polled
            /\ proc' = Reaped
            /\ UNCHANGED <<process, socket>>
            /\ IF Crashed(Polled)
               THEN /\ Return("ServerCrashed", None, NoneObj)
                    /\ UNCHANGED <<inbox, invoked, lastFrame>>
               ELSE IF inbox # <<>>
               THEN /\ inbox' = Tail(inbox)
                    /\ Deliver(Head(inbox))
               ELSE /\ pc' = "hung"
                    /\ UNCHANGED <<inbox, invoked, lastFrame, err, errText, reply>>
    /\ UNCHANGED <<self_root_dir, self_build_dir, socket_path, status, listening, sockFile,
                   greeted, pending, handshakes, tries, sleeps, disposals>>
    /\ UNCHANGED <<noise, ivars, wvars, pvars, yvars>>

\* The message a method sends, with the cookie send_and_read adds.
Message(method, arg, cookie) ==
    IF method = "handshake"
    THEN [type |-> "handshake", sourceDirectory |-> arg.root_dir,
          buildDirectory |-> arg.build_dir, protocolVersion |-> [major |-> 1],
          cookie |-> cookie]
         @@ (IF arg.generator = None THEN <<>> ELSE [generator |-> arg.generator])
    ELSE IF method = "configure"
    THEN [type |-> "configure", cookie |-> cookie,
          cacheArguments |-> [i \in DOMAIN arg |-> "-D" \o arg[i][1] \o "=" \o arg[i][2]]]
    ELSE [type |-> MessageType(method), cookie |-> cookie]

\* The arguments a method may be called with.
Arguments(method) ==
    IF method = "handshake"
    THEN {[root_dir |-> "/p", build_dir |-> "/p/build", generator |-> g] :
            g \in {None, "Ninja"}}
    ELSE IF method = "configure"
    THEN {<<>>, << <<"CMAKE_BUILD_TYPE", "Debug">> >>}
    ELSE {NoneObj}

\* handshake, configure, generate, codemodel, cache, up to the end of send_message.
\* A write to the socket of a server that has exited either raises BrokenPipeError
\* or is accepted.
Request(method, arg, cookie) ==
    /\ pc = "idle"
    /\ disposals = 0
    /\ invoked' = [Call(method) EXCEPT !.cookie = cookie]
    /\ lastFrame' = NoneObj
    /\ IF method = "handshake" /\ AlreadyHandshaken
       THEN /\ Return("AlreadyInitialized", None, NoneObj)
            /\ UNCHANGED <<self_root_dir, self_build_dir, process, socket, returncode, proc,
                           pending, handshakes>>
       ELSE /\ IF method = "handshake"
               THEN self_root_dir' = arg.root_dir /\ self_build_dir' = arg.build_dir
               ELSE UNCHANGED <<self_root_dir, self_build_dir>>
            /\ IF NotRunning
               THEN /\ process' = None
                    /\ socket' = None
                    /\ Return("ServerNotRunning", None, NoneObj)
                    /\ UNCHANGED <<returncode, proc, pending, handshakes>>
               ELSE /\ returncode' = Polled
                    /\ proc' = Reaped
                    /\ UNCHANGED <<process, socket>>
                    /\ IF Crashed(Polled)
                       THEN /\ Return("ServerCrashed", None, NoneObj)
                            /\ UNCHANGED <<pending, handshakes>>
                       ELSE \/ /\ pending' = Append(pending, Message(method, arg, cookie))
                               /\ handshakes' = handshakes + (IF method = "handshake" THEN 1 ELSE 0)
                               /\ pc' = "request_read"
                               /\ err' = "running"
                               /\ errText' = None
                               /\ reply' = NoneObj
                            \/ /\ proc # "running"
                               /\ Return("BrokenPipeError", None, NoneObj)
                               /\ UNCHANGED <<pending, handshakes>>
    /\ UNCHANGED <<socket_path, status, listening, sockFile, greeted, inbox,
                   tries, sleeps, disposals>>
    /\ UNCHANGED <<noise, ivars, wvars, pvars, yvars>>

\* CmakeServer.__del__.  The subprocess, if it still runs, either exits within the
\* 0.4 s after terminate() or is killed; the poll right after kill() either finds
\* the killed process exited or finds it not yet gone.
Dispose(terminated, collected) ==
    /\ pc = "idle"
    /\ disposals < MaxDispose
    /\ disposals' = disposals + 1
    /\ invoked' = Call("__del__")
    /\ lastFrame' = NoneObj
    /\ IF process = None
       THEN /\ Return("ok", None, NoneObj)
            /\ UNCHANGED <<returncode, proc, status, listening, sockFile>>
       ELSE /\ IF Polled # None
               THEN /\ returncode' = Polled
                    /\ proc' = Reaped
                    /\ UNCHANGED <<status, listening>>
               ELSE IF terminated
               THEN /\ returncode' = "-15"
                    /\ proc' = "reaped"
                    /\ status' = "-15"
                    /\ listening' = FALSE
               ELSE IF collected
               THEN /\ returncode' = "-9"
                    /\ proc' = "reaped"
                    /\ status' = "-9"
                    /\ listening' = FALSE
               ELSE /\ returncode' = None
                    /\ proc' = "zombie"
                    /\ status' = "-9"
                    /\ listening' = FALSE
            /\ IF sockFile
               THEN /\ sockFile' = FALSE
                    /\ Return("ok", None, NoneObj)
               ELSE /\ Return("FileNotFoundError", None, NoneObj)
                    /\ UNCHANGED sockFile
    /\ UNCHANGED <<self_root_dir, self_build_dir, socket_path, process, socket, greeted,
                   inbox, pending, handshakes, tries, sleeps>>
    /\ UNCHANGED <<noise, ivars, wvars, pvars, yvars>>

-----------------------------------------------------------------------------
(* The cmake server and the operating system *)

\* The server binds its socket, which creates the socket file.
ServerListen ==
    /\ proc = "running"
    /\ ~listening
    /\ listening' = TRUE
    /\ sockFile' = TRUE
    /\ UNCHANGED <<self_root_dir, self_build_dir, socket_path, process, returncode, socket,
                   proc, status, greeted, inbox, pending, handshakes,
                   pc, invoked, err, errText, reply, lastFrame, tries, sleeps, disposals>>
    /\ UNCHANGED <<noise, ivars, wvars, pvars, yvars>>

\* The server greets a client that has connected.
ServerHello(hello) ==
    /\ proc = "running"
    /\ socket # None
    /\ ~greeted
    /\ greeted' = TRUE
    /\ inbox' = Append(inbox, hello)
    /\ UNCHANGED <<self_root_dir, self_build_dir, socket_path, process, returncode, socket,
                   proc, status, listening, sockFile, pending, handshakes,
                   pc, invoked, err, errText, reply, lastFrame, tries, sleeps, disposals>>
    /\ UNCHANGED <<noise, ivars, wvars, pvars, yvars>>

\* The server writes a signal, message or progress frame while it works on a request.
ServerNoise(type) ==
    /\ proc = "running"
    /\ pending # <<>>
    /\ noise < MaxNoise
    /\ noise' = noise + 1
    /\ inbox' = Append(inbox, [type |-> type, message |-> "Configuring"])
    /\ UNCHANGED <<self_root_dir, self_build_dir, socket_path, process, returncode, socket,
                   proc, status, listening, sockFile, greeted, pending, handshakes,
                   pc, invoked, err, errText, reply, lastFrame, tries, sleeps, disposals>>
    /\ UNCHANGED <<ivars, wvars, pvars, yvars>>

\* The answer of the server to a request: a reply, or an error with its text.
Answers(request) ==
    {[type |-> "reply", inReplyTo |-> request.type, cookie |-> request.cookie]}
    \cup {[type |-> "error", inReplyTo |-> request.type, cookie |-> request.cookie,
           errorMessage |-> text] : text \in ErrorTexts}

\* The server answers the oldest request it has not answered.
ServerAnswer ==
    /\ proc = "running"
    /\ pending # <<>>
    /\ \E frame \in Answers(Head(pending)) : inbox' = Append(inbox, frame)
    /\ pending' = Tail(pending)
    /\ noise' = 0
    /\ UNCHANGED <<self_root_dir, self_build_dir, socket_path, process, returncode, socket,
                   proc, status, listening, sockFile, greeted, handshakes,
                   pc, invoked, err, errText, reply, lastFrame, tries, sleeps, disposals>>
    /\ UNCHANGED <<ivars, wvars, pvars, yvars>>

\* The server exits by itself, with status 0 or 1; it removes its socket file or
\* leaves it behind.
ServerExit(code, unlinked) ==
    /\ proc = "running"
    /\ proc' = "zombie"
    /\ status' = code
    /\ listening' = FALSE
    /\ sockFile' = (sockFile /\ ~unlinked)
    /\ UNCHANGED <<self_root_dir, self_build_dir, socket_path, process, returncode, socket,
                   greeted, inbox, pending, handshakes,
                   pc, invoked, err, errText, reply, lastFrame, tries, sleeps, disposals>>
    /\ UNCHANGED <<noise, ivars, wvars, pvars, yvars>>

NextServer ==
    \/ \E path \in {"/tmp/cmake_index_0"} : StartCall(path)
    \/ StartSleep
    \/ StartLoopExit
    \/ StartConnect
    \/ ReadMessage
    \/ \E method \in Methods : \E arg \in Arguments(method), cookie \in Cookies :
            Request(method, arg, cookie)
    \/ \E terminated \in BOOLEAN, collected \in BOOLEAN : Dispose(terminated, collected)
    \/ ServerListen
    \/ \E hello \in Hellos : ServerHello(hello)
    \/ \E type \in NoiseTypes : ServerNoise(type)
    \/ ServerAnswer
    \/ \E code \in {"0", "1"}, unlinked \in BOOLEAN : ServerExit(code, unlinked)

\* A client that has not been started; no index is built.
InitClient ==
    /\ IndexConstructed
    /\ codemodel = <<>>
    /\ disk = <<>>
    /\ InitServer
    /\ InitWire
    /\ NoUpdate
    /\ InitPluginIdle

SpecServer == InitClient /\ [][NextServer]_vars

-----------------------------------------------------------------------------
(* Properties of the client *)

\* A request operation has returned or raised.
Finished == invoked.op \in Methods /\ pc = "idle"

C5_HandshakeOnce ==
    /\ handshakes <= 1
    /\ (invoked.op = "handshake" /\ invoked.handshaken) =>
        /\ pc = "idle"
        /\ err = "AlreadyInitialized"
        /\ Len(pending) = invoked.pendingAtCall

\* A second handshake was rejected after the first had been written.
C5_SecondHandshakeRejected ==
    /\ invoked.op = "handshake"
    /\ invoked.handshaken
    /\ handshakes = 1
    /\ err = "AlreadyInitialized"

\* C6: when the frame read for a request is an error frame, after any signal, message
\* and progress frames, the operation has raised ServerRequestFailed with the text of
\* the frame's errorMessage, reads no further frame and returns no reply.
C6_ErrorFrameRaises ==
    (invoked.op \in Methods /\ "type" \in DOMAIN lastFrame /\ lastFrame.type = "error") =>
        /\ pc = "idle"
        /\ err = "ServerRequestFailed"
        /\ errText = lastFrame.errorMessage
        /\ reply = NoneObj

\* An error frame was read after other frames of the same request.
C6_ErrorAfterNoise ==
    /\ Finished
    /\ "type" \in DOMAIN lastFrame
    /\ lastFrame.type = "error"
    /\ invoked.reads >= 2
    /\ err = "ServerRequestFailed"

\* C7: start sleeps waiting for the socket file at most the fixed number of tries,
\* and then ends.
C7_WaitBounded == sleeps <= StartTries

\* C8: once a client that launched a subprocess has been disposed of, the subprocess
\* has exited and its status has been collected, and the socket file is gone.
C8_DisposedClean ==
    (disposals > 0 /\ proc # "none") => (proc = "reaped" /\ ~sockFile)

\* C9: the teardown never raises, whether it runs for the first or the second time
\* and whether or not start had succeeded.
C9_DisposeNeverRaises ==
    invoked.op = "__del__" => err = "ok"

\* C15: a start that has read the hello frame of the server has raised
\* UnsupportedProtocol ('Server doesn't support 1.x protocol.') when none of the
\* versions the frame lists has major version 1, and has returned without an exception
\* when at least one of them has.
C15_VersionCheck ==
    (/\ invoked.op = "start"
     /\ pc = "idle"
     /\ "type" \in DOMAIN lastFrame
     /\ lastFrame.type = "hello")
    => LET versions == lastFrame.supportedProtocolVersions
       IN IF \E i \in DOMAIN versions : versions[i].major = 1
          THEN err = "ok"
          ELSE err = "UnsupportedProtocol"

\* A start has passed the version check on a hello frame whose first version is not 1.x.
C15_LaterVersionAccepted ==
    /\ invoked.op = "start"
    /\ pc = "idle"
    /\ "type" \in DOMAIN lastFrame
    /\ lastFrame.type = "hello"
    /\ Len(lastFrame.supportedProtocolVersions) = 2
    /\ lastFrame.supportedProtocolVersions[1].major # 1
    /\ err = "ok"

\* C19: a request operation that has returned has read, last, the reply frame that
\* carries the cookie of its own request and answers its own request type, and
\* generate, codemodel and cache return that very frame; one that has raised
\* ServerRequestFailed has read the error frame with its own cookie.  This holds for
\* every request of a connection, whatever signal, message and progress frames the
\* server interleaves and however the operations before it ended.
C19_OwnReplyReturned ==
    (invoked.op \in Methods /\ pc = "idle") =>
        /\ err = "ok" =>
            /\ lastFrame.type = "reply"
            /\ lastFrame.cookie = invoked.cookie
            /\ lastFrame.inReplyTo = MessageType(invoked.op)
            /\ reply = (IF ReturnsReply(invoked.op) THEN lastFrame ELSE NoneObj)
        /\ err = "ServerRequestFailed" =>
            /\ lastFrame.type = "error"
            /\ lastFrame.cookie = invoked.cookie
            /\ lastFrame.inReplyTo = MessageType(invoked.op)

\* A request called right after a request that had raised ServerRequestFailed has
\* returned its own reply, read after two other frames.
C19_ReplyAfterFailedRequest ==
    /\ invoked.op = "codemodel"
    /\ pc = "idle"
    /\ invoked.after = "ServerRequestFailed"
    /\ invoked.reads = 3
    /\ err = "ok"
    /\ reply.cookie = invoked.cookie
    /\ inbox = <<>>

\* A step of the client that writes a request, or that reads a frame (the start of a
\* new subprocess opens a new connection, with nothing on it).
WritesOrReads ==
    \/ Len(pending') > Len(pending)
    \/ pc \in {"start_hello", "request_read"} /\ Len(inbox') < Len(inbox)

\* The client has not recorded an exit, and its server has exited with a status other
\* than 0: the poll of the next read or write returns that status.
CrashUnseen ==
    /\ process # None /\ socket # None /\ returncode = None
    /\ proc = "zombie" /\ status # "0"

\* C21: a read or a write polls the exit status of the subprocess before it touches the
\* socket: a step that writes or reads a frame has recorded the exit of a server that
\* has exited, with status 0; and a read or write whose poll finds a status other than
\* 0 raises ServerCrashed and neither writes nor reads a frame.
C21_PollBeforeSocket ==
    [][/\ WritesOrReads =>
            /\ ~NotRunning
            /\ proc # "running" => returncode' = "0" /\ status = "0"
       /\ \A method \in Methods : \A arg \in Arguments(method), cookie \in Cookies :
            (Request(method, arg, cookie) /\ CrashUnseen
                /\ ~(method = "handshake" /\ AlreadyHandshaken))
            => err' = "ServerCrashed" /\ pending' = pending /\ inbox' = inbox
       /\ (ReadMessage /\ CrashUnseen)
            => err' = "ServerCrashed" /\ pending' = pending /\ inbox' = inbox]_vars

\* C21: a read has raised ServerCrashed although a frame was waiting on the socket.
C21_CrashBeforeFrame ==
    /\ invoked.op \in Methods
    /\ pc = "idle"
    /\ err = "ServerCrashed"
    /\ invoked.reads = 1
    /\ inbox # <<>>

\* C31: a client launches at most one subprocess: a start that spawns one is the first
\* on its instance, and every start after it raises 'Already started', also after a
\* failed read or write has found the subprocess gone.
C31_OneSubprocess ==
    [][(pc = "idle" /\ pc' = "start_wait") => proc = "none"]_vars

\* C32: a handshake that fails, because the server answers with an error frame or is
\* not running, leaves the recorded root and build directory unset, so that a later
\* handshake on the instance is sent and not rejected as AlreadyInitialized.
C32_FailedHandshakeUnset ==
    (/\ invoked.op = "handshake"
     /\ pc = "idle"
     /\ ~invoked.handshaken
     /\ err \in {"ServerRequestFailed", "ServerNotRunning", "ServerCrashed"}) =>
        self_root_dir = None /\ self_build_dir = None

-----------------------------------------------------------------------------
(* The framing of messages: server.py, send_message and read_message, on the lines  *)
(* of the socket.  A JSON value is [t, s, items]: a string or a number with its     *)
(* text s, a list or an object with its items [key, val] in order.  A JSON text is  *)
(* a sequence of tokens [k, v]; a line is the sequence of tokens before its '\n'.   *)

\* How many frames the model writes to the socket.
MaxFrames == 2

\* How many blank lines the model puts between the lines of the socket.
MaxBlank == 2

JStr(text) == [t |-> "str", s |-> text, items |-> <<>>]

JNum(text) == [t |-> "num", s |-> text, items |-> <<>>]

JList(vals) ==
    [t |-> "list", s |-> "", items |-> [i \in DOMAIN vals |-> [key |-> "", val |-> vals[i]]]]

JObj(pairs) ==
    [t |-> "obj", s |-> "",
     items |-> [i \in DOMAIN pairs |-> [key |-> pairs[i][1], val |-> pairs[i][2]]]]

\* What read_message gives when json.loads raises JSONDecodeError.
JErr == [t |-> "error", s |-> "JSONDecodeError", items |-> <<>>]

Tok(k, v) == [k |-> k, v |-> v]

Space == Tok("ws", " ")

\* json.dumps: one line, ', ' between items and ': ' after a key.
RECURSIVE Dumps(_)
RECURSIVE DumpItems(_, _, _)
Dumps(value) ==
    IF value.t = "str" THEN <<Tok("str", value.s)>>
    ELSE IF value.t = "num" THEN <<Tok("num", value.s)>>
    ELSE IF value.t = "list"
    THEN <<Tok("punct", "[")>> \o DumpItems(value.items, 1, FALSE) \o <<Tok("punct", "]")>>
    ELSE <<Tok("punct", "{")>> \o DumpItems(value.items, 1, TRUE) \o <<Tok("punct", "}")>>

DumpItems(items, i, keyed) ==
    IF i > Len(items) THEN <<>>
    ELSE (IF i > 1 THEN <<Tok("punct", ","), Space>> ELSE <<>>)
         \o (IF keyed THEN <<Tok("str", items[i].key), Tok("punct", ":"), Space>> ELSE <<>>)
         \o Dumps(items[i].val)
         \o DumpItems(items, i + 1, keyed)

\* The first position from i on that holds no whitespace.
RECURSIVE Skip(_, _)
Skip(ts, i) == IF i <= Len(ts) /\ ts[i].k = "ws" THEN Skip(ts, i + 1) ELSE i

\* A failed parse.
Fail == [val |-> JErr, next |-> 0]

\* json.loads, from position i0 of the text: the value and the position after it.
RECURSIVE ParseValue(_, _)
RECURSIVE ParseItems(_, _, _, _)
RECURSIVE ParseItem(_, _, _, _)
ParseValue(ts, i0) ==
    LET i == Skip(ts, i0)
    IN IF i > Len(ts) THEN Fail
       ELSE IF ts[i] = Tok("punct", "{") THEN ParseItems(ts, i + 1, <<>>, TRUE)
       ELSE IF ts[i] = Tok("punct", "[") THEN ParseItems(ts, i + 1, <<>>, FALSE)
       ELSE IF ts[i].k = "str" THEN [val |-> JStr(ts[i].v), next |-> i + 1]
       ELSE IF ts[i].k = "num" THEN [val |-> JNum(ts[i].v), next |-> i + 1]
       ELSE Fail

ParseItems(ts, i0, acc, keyed) ==
    LET i == Skip(ts, i0)
        close == Tok("punct", IF keyed THEN "}" ELSE "]")
        done == [val |-> [t |-> IF keyed THEN "obj" ELSE "list", s |-> "", items |-> acc],
                 next |-> i + 1]
    IN IF i > Len(ts) THEN Fail
       ELSE IF acc = <<>>
       THEN IF ts[i] = close THEN done ELSE ParseItem(ts, i, acc, keyed)
       ELSE IF ts[i] = close THEN done
       ELSE IF ts[i] = Tok("punct", ",") THEN ParseItem(ts, Skip(ts, i + 1), acc, keyed)
       ELSE Fail

ParseItem(ts, i, acc, keyed) ==
    IF ~keyed
    THEN LET r == ParseValue(ts, i)
         IN IF r.next = 0 THEN Fail
            ELSE ParseItems(ts, r.next, Append(acc, [key |-> "", val |-> r.val]), keyed)
    ELSE IF i > Len(ts) \/ ts[i].k # "str" THEN Fail
    ELSE LET c == Skip(ts, i + 1)
         IN IF c > Len(ts) \/ ts[c] # Tok("punct", ":") THEN Fail
            ELSE LET r == ParseValue(ts, c + 1)
                 IN IF r.next = 0 THEN Fail
                    ELSE ParseItems(ts, r.next, Append(acc, [key |-> ts[i].v, val |-> r.val]), keyed)

Loads(ts) ==
    LET r == ParseValue(ts, 1)
    IN IF r.next = 0 \/ Skip(ts, r.next) <= Len(ts) THEN JErr ELSE r.val

\* The dict a method sends, with the cookie send_and_read adds last.
JsonMessage(method, arg, cookie) ==
    IF method = "handshake"
    THEN JObj(<< <<"type", JStr("handshake")>>,
                 <<"sourceDirectory", JStr(arg.root_dir)>>,
                 <<"buildDirectory", JStr(arg.build_dir)>>,
                 <<"protocolVersion", JObj(<< <<"major", JNum("1")>> >>)>> >>
              \o (IF arg.generator = None THEN <<>>
                  ELSE << <<"generator", JStr(arg.generator)>> >>)
              \o << <<"cookie", JStr(cookie)>> >>)
    ELSE IF method = "configure"
    THEN JObj(<< <<"type", JStr("configure")>>,
                 <<"cacheArguments",
                   JList([i \in DOMAIN arg |-> JStr("-D" \o arg[i][1] \o "=" \o arg[i][2])])>>,
                 <<"cookie", JStr(cookie)>> >>)
    ELSE JObj(<< <<"type", JStr(MessageType(method))>>, <<"cookie", JStr(cookie)>> >>)

OpenLine == <<Tok("text", "[== \"CMake Server\" ==[")>>

CloseLine == <<Tok("text", "]== \"CMake Server\" ==]")>>

\* The three lines send_message writes.
FrameLines(message) == <<OpenLine, Dumps(message), CloseLine>>

\* str.strip() of a line.
RECURSIVE Strip(_)
Strip(line) ==
    IF line = <<>> THEN line
    ELSE IF line[1].k = "ws" THEN Strip(Tail(line))
    ELSE IF line[Len(line)].k = "ws" THEN Strip(SubSeq(line, 1, Len(line) - 1))
    ELSE line

\* A reader that keeps the blank lines.
AllLines(lines) == lines

\* The lines read_message appends: those that are not empty once stripped.
NonBlankLines(lines) == SelectSeq(lines, LAMBDA line : Len(line) # 0)

\* '\n'.join(lines)
RECURSIVE JoinLines(_, _)
JoinLines(lines, i) ==
    IF i > Len(lines) THEN <<>>
    ELSE lines[i] \o (IF i < Len(lines) THEN <<Tok("ws", "\n")>> ELSE <<>>) \o JoinLines(lines, i + 1)

\* Where the loop of read_message stops: the first line that is the closing sentinel.
ClosingAt(stream) ==
    IF \E i \in DOMAIN stream : Strip(stream[i]) = CloseLine
    THEN CHOOSE i \in DOMAIN stream :
            /\ Strip(stream[i]) = CloseLine
            /\ \A j \in 1..(i - 1) : Strip(stream[j]) # CloseLine
    ELSE 0

\* What read_message returns for the lines up to the closing sentinel.
ParseFrame(read) ==
    LET lines == NonBlankLines([i \in DOMAIN read |-> Strip(read[i])])
    IN Loads(JoinLines(SubSeq(lines, 2, Len(lines) - 1), 1))

\* The messages the model sends through the socket.
WireMessages ==
    { JsonMessage("handshake", [root_dir |-> "/p", build_dir |-> "/p/build", generator |-> "Ninja"],
                  "qwertyui"),
      JsonMessage("configure", << <<"CMAKE_BUILD_TYPE", "Debug">> >>, "asdfghjk"),
      JsonMessage("codemodel", NoneObj, "qwertyui") }

BlankLines == { <<>>, <<Space>> }

\* send_message, from the write of the opening sentinel on (server.py:181-184).
WriteFrame(message) ==
    /\ Len(framesWritten) < MaxFrames
    /\ sockLines' = sockLines \o FrameLines(message)
    /\ framesWritten' = Append(framesWritten, message)
    /\ UNCHANGED framesRead
    /\ UNCHANGED <<ivars, svars, pvars, yvars>>

\* A blank line gets between two lines of the socket, or before the first.
WireBlank(pos, blank) ==
    /\ Cardinality({i \in DOMAIN sockLines : Strip(sockLines[i]) = <<>>}) < MaxBlank
    /\ pos \in 0..Len(sockLines)
    /\ sockLines' = SubSeq(sockLines, 1, pos) \o <<blank>> \o SubSeq(sockLines, pos + 1, Len(sockLines))
    /\ UNCHANGED <<framesWritten, framesRead>>
    /\ UNCHANGED <<ivars, svars, pvars, yvars>>

\* read_message, from its loop on (server.py:161-168): readline blocks until the
\* closing sentinel has come.
ReadFrame ==
    /\ ClosingAt(sockLines) # 0
    /\ \E at \in {ClosingAt(sockLines)} :
        /\ framesRead' = Append(framesRead, [message |-> ParseFrame(SubSeq(sockLines, 1, at)),
                                             lines   |-> at])
        /\ sockLines' = SubSeq(sockLines, at + 1, Len(sockLines))
    /\ UNCHANGED framesWritten
    /\ UNCHANGED <<ivars, svars, pvars, yvars>>

NextFraming ==
    \/ \E message \in WireMessages : WriteFrame(message)
    \/ \E pos \in 0..(3 * MaxFrames + MaxBlank), blank \in BlankLines : WireBlank(pos, blank)
    \/ ReadFrame

SpecFraming == InitClient /\ [][NextFraming]_vars

-----------------------------------------------------------------------------
(* Properties of the framing *)

\* C20: every call of read_message returns the message of the next frame written,
\* equal to the message send_message was given, whatever blank lines lie between the
\* lines of the socket, and leaves on the socket exactly the lines of the frames not
\* yet read.
C20_FramingRoundTrips ==
    /\ Len(framesRead) <= Len(framesWritten)
    /\ \A i \in DOMAIN framesRead : framesRead[i].message = framesWritten[i]
    /\ SelectSeq(sockLines, LAMBDA line : Strip(line) # <<>>)
        = Flatten([i \in 1..(Len(framesWritten) - Len(framesRead)) |->
                    FrameLines(framesWritten[Len(framesRead) + i])])

\* Two different frames were written and read back, the second from more than its
\* three lines.
C20_TwoFramesReadBack ==
    /\ Len(framesWritten) = 2
    /\ Len(framesRead) = 2
    /\ framesRead[1].message # framesRead[2].message
    /\ framesRead[2].message = framesWritten[2]
    /\ framesRead[2].lines = 3 + MaxBlank
    /\ sockLines = <<>>

-----------------------------------------------------------------------------
(* The plugin: __init__.py, class Plugin.  A handler runs from its call to its      *)
(* return: the requests it sends are answered by the server before it goes on.     *)
(* None is NoDir where a directory is expected.  The options other than            *)
(* persistent_server have their default values.                                    *)

\* How often the model calls init_project_info.
MaxInits == 2

NoDir == <<>>

\* DEFAULT_VALUES['default_generator']
DefaultGenerator == "Unix Makefiles"

BuildOf(root) == root \o <<"build">>

OutDir == ProjectDir \o <<"out">>

\* The build directories the model uses: two of the project in /p, one of the
\* project in /p/lib, which has a CMakeLists.txt of its own.
BuildDirs == {BuildOf(ProjectDir), OutDir, BuildOf(LibDir)}

\* The root and build directory a command passes, or none.
InitArgs ==
    { <<NoDir, NoDir>>, <<ProjectDir, BuildOf(ProjectDir)>>, <<ProjectDir, OutDir>>,
      <<LibDir, BuildOf(LibDir)>> }

SourceBuffers == { File(SrcDir, "foo", "cpp"), File(LibDir, "new", "cpp"), File(TmpDir, "x", "cpp") }

PlainBuffers == { File(LibDir, "README", "md") }

\* The files CmakeQueryFile is called with.
QueriedFiles == { File(SrcDir, "foo", "cpp"), File(LibDir, "new", "cpp") }

\* Plugin.file_type: None for a name that is no C or C++ source or header.
FileType(f) == IF f.ext \in {"cpp", "hpp"} THEN f.ext ELSE None

\* Plugin.project_root: the topmost directory above the file with a CMakeLists.txt.
ProjectRoot(f) ==
    IF CommonPrefix(f.dir, ProjectDir) = Len(ProjectDir) THEN ProjectDir ELSE NoDir

\* Plugin.build_dir: the first of root/build and root/. that holds a CMakeCache.txt.
BuildDirOf(f, cached) ==
    LET root == ProjectRoot(f)
    IN IF root = NoDir THEN NoDir
       ELSE IF BuildOf(root) \in cached THEN BuildOf(root)
       ELSE IF root \in cached THEN root \o <<".">>
       ELSE NoDir

\* What the server of a source tree answers to codemodel: /p has the targets A and B,
\* B with lib/foo.cpp; /p/lib has the target L with the same file.
PluginOwners == [i \in DOMAIN Candidates |-> IF i = 1 THEN "A" ELSE IF i = 4 THEN "B" ELSE "-"]

LibCodemodel ==
    << [name |-> "L", sourceDirectory |-> LibDir, buildDirectory |-> BuildOf(LibDir),
        targets |-> << [name |-> "L",
                        type |-> "STATIC_LIBRARY",
                        sourceDirectory |-> LibDir,
                        buildDirectory |-> BuildOf(LibDir),
                        linkerLanguage |-> "CXX",
                        fullName |-> "L",
                        fileGroups |-> << CompileGroup("B", << File(<<>>, "foo", "cpp") >>) >>] >>] >>

ServedCodemodel(root) ==
    IF root = LibDir THEN LibCodemodel ELSE Codemodel(PluginOwners, "UTILITY")

PluginDisk == [f \in {File(SrcDir, "foo", "cpp"), File(LibDir, "foo", "cpp")} |-> Text(<<>>)]

\* What the model lets go wrong in one handler: nothing, the start of a new server,
\* or the answer to one request, which is then an error frame.
Faults == {"none", "StartupFailure", "UnsupportedProtocol", "handshake", "codemodel"}

Answer(fault, method) == IF fault = method THEN "error" ELSE "reply"

PluginCookie == "qwertyui"

Without(f, k) == [x \in DOMAIN f \ {k} |-> f[x]]

Put(f, k, v) == (k :> v) @@ f

\* CmakeServer.__init__
NewClient ==
    [root_dir |-> NoDir, build_dir |-> NoDir, process |-> None, socket |-> None,
     returncode |-> None]

\* The registries of the plugin and what its handlers change outside it, as one value
\* that the steps of a handler pass on; 'raised' is the exception on its way up.
PluginState ==
    [servers |-> servers, index |-> index, indexOrder |-> indexOrder,
     used |-> used_build_dirs, conns |-> conns, cachetxt |-> cachetxt,
     bufvars |-> bufvars, raised |-> None]

\* CmakeServer.start on the client of build directory b.  A server that fails to start
\* has bound its socket and exited (server.py:92-94); one that speaks no 1.x protocol
\* stays connected (server.py:101-111).
Start(st, b, fault) ==
    LET c == st.servers[b]
    IN IF c.process # None \/ c.socket # None
       THEN [st EXCEPT !.raised = "AlreadyStarted"]
       ELSE IF fault = "StartupFailure"
       THEN [st EXCEPT !.servers[b].process = "Popen", !.servers[b].returncode = "1",
                       !.raised = "StartupFailure"]
       ELSE IF fault = "UnsupportedProtocol"
       THEN [st EXCEPT !.servers[b].process = "Popen", !.servers[b].socket = "connected",
                       !.raised = "UnsupportedProtocol"]
       ELSE [st EXCEPT !.servers[b].process = "Popen", !.servers[b].socket = "connected",
                       !.conns[b].started = TRUE]

\* CmakeServer.send_and_read on the client of build directory b: the frame is written
\* unless the client finds its server not running, and the server answers it.  A
\* configure that is answered has written the CMakeCache.txt.
Send(st, b, frame, answer) ==
    LET c == st.servers[b]
    IN IF c.process = None \/ c.socket = None \/ c.returncode # None
       THEN [st EXCEPT !.servers[b].process = None, !.servers[b].socket = None,
                       !.raised = "ServerNotRunning"]
       ELSE [st EXCEPT !.conns[b].wire = Append(@, [frame |-> frame, answer |-> answer]),
                       !.cachetxt = IF frame.type = "configure" /\ answer = "reply"
                                    THEN @ \cup {b} ELSE @,
                       !.raised = IF answer = "reply" THEN None ELSE "ServerRequestFailed"]

\* CmakeServer.handshake
Handshake(st, b, root_dir, build_dir, generator, answer) ==
    LET c == st.servers[b]
    IN IF c.root_dir # NoDir \/ c.build_dir # NoDir
       THEN [st EXCEPT !.raised = "AlreadyInitialized"]
       ELSE Send([st EXCEPT !.servers[b].root_dir = root_dir, !.servers[b].build_dir = build_dir],
                 b,
                 Message("handshake",
                         [root_dir |-> root_dir, build_dir |-> build_dir, generator |-> generator],
                         PluginCookie),
                 answer)

\* configure, generate, codemodel, cache, one after the other until one raises.
RECURSIVE SendAll(_, _, _, _, _)
SendAll(st, b, methods, i, fault) ==
    IF i > Len(methods) \/ st.raised # None THEN st
    ELSE SendAll(Send(st, b,
                      Message(methods[i], IF methods[i] = "configure" THEN <<>> ELSE NoneObj,
                              PluginCookie),
                      Answer(fault, methods[i])),
                 b, methods, i + 1, fault)

\* A generator for every handshake.
HandshakeGeneratorAlways(st, b) == DefaultGenerator

\* The generator get_server passes to handshake.
HandshakeGenerator(st, b) == IF b \notin st.cachetxt THEN DefaultGenerator ELSE None

\* Plugin.get_server
GetServer(st, root_dir, b, fault) ==
    IF b \in DOMAIN st.servers THEN st
    ELSE LET created == [st EXCEPT !.servers = Put(@, b, NewClient),
                                   !.conns = Put(@, b, [wire |-> <<>>, started |-> FALSE,
                                                        cacheAtCreate |-> b \in st.cachetxt])]
             started == Start(created, b, fault)
         IN IF started.raised # None THEN started
            ELSE Handshake(started, b, root_dir, b, HandshakeGenerator(started, b),
                           Answer(fault, "handshake"))

\* Index.initialize, index.py:70: the files the header heuristics found are added.
FilesUpdated(ix, fileKVs, newKVs) ==
    [ix EXCEPT !.files = DictOf(fileKVs \o newKVs),
               !.fileOrder = OrderPutAll(@, DOMAIN ix.files, Keys(newKVs))]

\* Index.initialize, index.py:63-71, on the converted projects.
Populated(root_dir, build_dir, projs, targetKVs, fileKVs) ==
    FilesUpdated(
        [root_directory  |-> root_dir,
         build_directory |-> build_dir,
         projects    |-> DictOf([i \in DOMAIN projs |->
                             <<projs[i].name,
                               [k \in DOMAIN projs[i] \ {"targets", "files"} |-> projs[i][k]]>>]),
         targets     |-> DictOf(targetKVs),
         targetOrder |-> OrderPutAll(<<>>, {}, Keys(targetKVs)),
         files       |-> DictOf(fileKVs),
         fileOrder   |-> OrderPutAll(<<>>, {}, Keys(fileKVs)),
         cache       |-> ConvertCacheVariables(CacheJson)],
        fileKVs,
        RunMatchingHeaderHeuristics(
            <<>> \o Values(DictOf(fileKVs), OrderPutAll(<<>>, {}, Keys(fileKVs))), PluginDisk))

\* The projects of a codemodel, converted.
Converted(root_dir, build_dir, projs) ==
    Populated(root_dir, build_dir, projs, TargetPairs(projs), FilePairs(projs))

\* Index(root_dir, build_dir) after initialize, given the codemodel the server returned.
IndexOf(root_dir, build_dir, cm) ==
    Converted(root_dir, build_dir,
              <<>> \o [i \in DOMAIN cm |-> ConvertProjectInfo(cm[i], root_dir, build_dir)])

\* Index.query_file, index.py:84-92: what the directory heuristic found is stored.
StoredResult(ix, abs_path, result) ==
    LET stored == [ix EXCEPT !.files = (abs_path :> result) @@ @,
                             !.fileOrder = Append(@, abs_path)]
    IN IF result = NoneObj
       THEN [index |-> ix, raised |-> None, value |-> NoneObj]
       ELSE IF result.target_name \notin DOMAIN ix.targets
       THEN [index |-> [stored EXCEPT !.targets = (result.target_name :> EmptyDict) @@ @,
                                      !.targetOrder = Append(@, result.target_name)],
             raised |-> "KeyError", value |-> NoneObj]
       ELSE [index |-> [stored EXCEPT !.targets[result.target_name].filepaths =
                                           Append(@, result.path)],
             raised |-> None, value |-> result]

\* Index.query_file on an index held by the plugin: the index after the call, the
\* exception and the value.
QueryFileOn(ix, abs_path, directory_heuristics) ==
    IF abs_path \in DOMAIN ix.files
    THEN [index |-> ix, raised |-> None, value |-> ix.files[abs_path]]
    ELSE IF ~directory_heuristics
    THEN [index |-> ix, raised |-> None, value |-> NoneObj]
    ELSE IF DirectoryScanRaises(ix.targets)
    THEN [index |-> ix, raised |-> "KeyError", value |-> NoneObj]
    ELSE StoredResult(ix, abs_path, GetFileInfoForDirectory(abs_path, ix.targets, ix.targetOrder))

\* init_project_info, __init__.py:371-386: the root and the build directory, and the
\* discarding of the server and index of the build directory the root used before.
Resolve(st, abs_filename, root_arg, build_arg) ==
    LET root_dir == IF root_arg = NoDir THEN ProjectRoot(abs_filename) ELSE root_arg
        old == st.used[root_dir]
    IN IF build_arg = NoDir
       THEN [st |-> st, root_dir |-> root_dir, always_configure |-> FALSE,
             build_dir |-> IF root_dir \notin DOMAIN st.used
                           THEN BuildDirOf(abs_filename, st.cachetxt) ELSE old]
       ELSE [root_dir |-> root_dir, always_configure |-> TRUE, build_dir |-> build_arg,
             st |-> IF build_arg \in DOMAIN st.index \/ root_dir \notin DOMAIN st.used THEN st
                    ELSE IF old \notin DOMAIN st.servers THEN [st EXCEPT !.raised = "KeyError"]
                    ELSE IF old \notin DOMAIN st.index
                    THEN [st EXCEPT !.servers = Without(@, old), !.raised = "KeyError"]
                    ELSE [st EXCEPT !.servers = Without(@, old), !.index = Without(@, old),
                                    !.indexOrder = SelectSeq(@, LAMBDA x : x # old)]]

\* An init_project_info that keeps the index a build directory has.
RegisteredOnce(st, root_dir, b) ==
    IF st.raised # None \/ b \in DOMAIN st.index THEN st
    ELSE [st EXCEPT !.index = Put(@, b, IndexOf(root_dir, b, ServedCodemodel(root_dir))),
                    !.indexOrder = OrderPut(@, DOMAIN st.index, b)]

\* init_project_info, __init__.py:415: the index is registered once initialize returns.
Registered(st, root_dir, b) ==
    IF st.raised # None THEN st
    ELSE [st EXCEPT !.index = Put(@, b, IndexOf(root_dir, b, ServedCodemodel(root_dir))),
                    !.indexOrder = OrderPut(@, DOMAIN st.index, b)]

\* Index.initialize after its codemodel request: it converts the codemodel before it
\* asks for the cache.
Initialized(st, root_dir, b, fault) ==
    IF st.raised # None THEN st
    ELSE IF \E i \in DOMAIN ServedCodemodel(root_dir) : ProjectRaises(ServedCodemodel(root_dir)[i])
    THEN [st EXCEPT !.raised = "IndexError"]
    ELSE Registered(SendAll(st, b, <<"cache">>, 1, fault), root_dir, b)

\* init_project_info, __init__.py:408-415: configure, generate, and a new index.
Configure(st, root_dir, b, always_configure, fault) ==
    IF st.raised # None \/ ~(always_configure \/ b \notin DOMAIN st.index) THEN st
    ELSE Initialized(SendAll(st, b, <<"configure", "generate", "codemodel">>, 1, fault),
                     root_dir, b, fault)

\* init_project_info, __init__.py:420-423: the file is looked up, and the build
\* directory of the root is remembered.
Remembered(st, root_dir, b, r) ==
    IF r.raised # None
    THEN [st EXCEPT !.index[b] = r.index, !.raised = r.raised]
    ELSE [st EXCEPT !.index[b] = r.index, !.used = Put(@, root_dir, b)]

\* init_project_info, __init__.py:417-418: a plugin without persistent servers drops
\* the server.
Dropped(st, b, persistent) ==
    IF persistent = 0 THEN [st EXCEPT !.servers = Without(@, b)] ELSE st

\* init_project_info, __init__.py:417-423
Finish(st, root_dir, b, abs_filename, persistent) ==
    IF st.raised # None THEN st
    ELSE Remembered(Dropped(st, b, persistent), root_dir, b,
                    QueryFileOn(st.index[b], abs_filename, TRUE))

\* The indexes and the answer after the query of one index in update_buffer_variables.
Scanned(ixs, build_dir, r, hit) ==
    [index |-> Put(ixs, build_dir, r.index), raised |-> r.raised,
     hit |-> IF r.raised = None /\ r.value # NoneObj THEN build_dir ELSE hit]

\* The loop of update_buffer_variables over the indexes, from the j-th on, for one
\* buffer: the indexes after the queries, and the build directory of the last index
\* that knows the file.
RECURSIVE ScanIndexes(_, _, _, _)
ScanIndexes(scan, order, j, abs_filepath) ==
    IF j > Len(order) \/ scan.raised # None THEN scan
    ELSE ScanIndexes(Scanned(scan.index, order[j],
                             QueryFileOn(scan.index[order[j]], abs_filepath, TRUE), scan.hit),
                     order, j + 1, abs_filepath)

\* The state after the loop over the indexes for one buffer, whose variables are set
\* unless a query raised.
BufferUpdated(st, name, scan) ==
    IF scan.raised # None
    THEN [st EXCEPT !.index = scan.index, !.raised = scan.raised]
    ELSE [st EXCEPT !.index = scan.index,
                    !.bufvars = Put(@, name, [cmake_configured |-> scan.hit # NoDir,
                                              cmake_tree_build_dir |-> scan.hit])]

\* Plugin.update_buffer_variables, from the i-th buffer on.
RECURSIVE UpdateBufferVariables(_, _, _)
UpdateBufferVariables(st, bufs, i) ==
    IF i > Len(bufs) \/ st.raised # None THEN st
    ELSE UpdateBufferVariables(
            BufferUpdated(st, bufs[i],
                          ScanIndexes([index |-> st.index, raised |-> None, hit |-> NoDir],
                                      st.indexOrder, 1, bufs[i])),
            bufs, i + 1)

\* The end of a handler that ran init_project_info: update_buffer_variables as its
\* last step, or in the handler's except clause.
Updated(st, bufs) == UpdateBufferVariables([st EXCEPT !.raised = None], bufs, 1)

\* What a handler leaves in the registries.
Leave(st) ==
    /\ servers' = st.servers
    /\ index' = st.index
    /\ indexOrder' = st.indexOrder
    /\ used_build_dirs' = st.used
    /\ conns' = st.conns
    /\ cachetxt' = st.cachetxt
    /\ bufvars' = st.bufvars

\* init_project_info(filename, root_dir, build_dir) inside the try of a handler; the
\* handler's except clause logs the exception and updates the buffer variables, as
\* init_project_info does itself where it returns.
InitProjectInfo(bufs, filename, root_arg, build_arg, fault) ==
    /\ inits < MaxInits
    /\ inits' = inits + 1
    /\ \E a \in {Resolve(PluginState, filename, root_arg, build_arg)} :
       \E over \in {a.st.raised # None \/ a.root_dir = NoDir} :
       \E b \in {IF a.build_dir = NoDir /\ a.root_dir # NoDir THEN BuildOf(a.root_dir)
                 ELSE a.build_dir} :
       \E s1 \in {IF over THEN a.st ELSE GetServer(a.st, a.root_dir, b, fault)} :
       \E s2 \in {IF over THEN s1 ELSE Configure(s1, a.root_dir, b, a.always_configure, fault)} :
       \E s3 \in {IF over THEN s2 ELSE Finish(s2, a.root_dir, b, filename, persistent_server)} :
       \E end \in {Updated(s3, bufs)} :
            /\ Leave(end)
            /\ pret' = [op |-> "init_project_info", build_dir |-> b,
                        raised |-> s3.raised, escaped |-> end.raised,
                        forced |-> a.always_configure,
                        had |-> IF b \in DOMAIN index THEN DOMAIN index[b].files ELSE {}]
    /\ UNCHANGED persistent_server
    /\ UNCHANGED <<ivars, svars, wvars, yvars>>

\* autoinit_project_info for a new buffer.
AutoInit(filename, fault) ==
    /\ filename \notin Range(buffers)
    /\ buffers' = Append(buffers, filename)
    /\ IF FileType(filename) = None
       THEN /\ \E end \in {Updated(PluginState, buffers')} :
                /\ Leave(end)
                /\ pret' = [op |-> "update_buffer_variables",
                            build_dir |-> NoDir, raised |-> None, escaped |-> end.raised]
            /\ UNCHANGED <<inits, persistent_server>>
            /\ UNCHANGED <<ivars, svars, wvars, yvars>>
       ELSE InitProjectInfo(buffers', filename, NoDir, NoDir, fault)

\* command_reinit with the root and build directory given, in one of the buffers.
CommandReinit(filename, args, fault) ==
    /\ filename \in Range(buffers)
    /\ UNCHANGED buffers
    /\ InitProjectInfo(buffers, filename, args[1], args[2], fault)

\* get_file_info, called by CmakeQueryFile with or without a build directory.
GetFileInfo(filename, build_dir) ==
    /\ pret.op # "none"
    /\ LET b == IF build_dir = NoDir /\ indexOrder # <<>> THEN indexOrder[1] ELSE build_dir
       IN IF b \notin DOMAIN index
          THEN /\ pret' = [op |-> "get_file_info", build_dir |-> build_dir,
                           raised |-> None, escaped |-> None, found |-> FALSE]
               /\ UNCHANGED index
          ELSE \E r \in {QueryFileOn(index[b], filename, TRUE)} :
               /\ index' = Put(index, b, r.index)
               /\ pret' = [op |-> "get_file_info", build_dir |-> b,
                           raised |-> None, escaped |-> r.raised, found |-> r.value # NoneObj]
    /\ UNCHANGED <<servers, indexOrder, used_build_dirs, buffers, bufvars, persistent_server,
                   cachetxt, conns, inits>>
    /\ UNCHANGED <<ivars, svars, wvars, yvars>>

\* command_clear: the indexes and the servers are dropped, and every buffer loses its
\* cmake_tree_build_dir.
CommandClear ==
    /\ index' = <<>>
    /\ indexOrder' = <<>>
    /\ bufvars' = [name \in DOMAIN bufvars |-> Without(bufvars[name], "cmake_tree_build_dir")]
    /\ servers' = <<>>
    /\ pret' = [op |-> "command_clear", build_dir |-> NoDir, raised |-> None, escaped |-> None]
    /\ UNCHANGED <<used_build_dirs, buffers, persistent_server, cachetxt, conns, inits>>
    /\ UNCHANGED <<ivars, svars, wvars, yvars>>

NextPlugin ==
    \/ \E filename \in SourceBuffers \cup PlainBuffers, fault \in Faults : AutoInit(filename, fault)
    \/ \E filename \in SourceBuffers \cup PlainBuffers, args \in InitArgs, fault \in Faults :
            CommandReinit(filename, args, fault)
    \/ \E filename \in QueriedFiles, build_dir \in BuildDirs \cup {NoDir} :
            GetFileInfo(filename, build_dir)
    \/ CommandClear

\* A plugin nothing has called; some build directories are configured already.
InitPlugin ==
    /\ IndexConstructed
    /\ codemodel = <<>>
    /\ disk = <<>>
    /\ InitServer
    /\ InitWire
    /\ NoUpdate
    /\ PluginConstructed
    /\ persistent_server \in {0, 1}
    /\ cachetxt \in {{}, {BuildOf(ProjectDir)}}

SpecPlugin == InitPlugin /\ [][NextPlugin]_vars

-----------------------------------------------------------------------------
(* Properties of the plugin.                                                       *)

\* C16: a handshake frame carries a generator field exactly if the build directory
\* held no CMakeCache.txt when the server for it was created; where it held one the
\* field is absent from the frame, not present with a null value.
C16_GeneratorIffNoCache ==
    \A b \in DOMAIN conns : \A i \in DOMAIN conns[b].wire :
        LET frame == conns[b].wire[i].frame
        IN frame.type = "handshake" =>
            /\ ("generator" \in DOMAIN frame) <=> ~conns[b].cacheAtCreate
            /\ "generator" \in DOMAIN frame => frame.generator = DefaultGenerator

\* C16: one server was created for a configured build directory and sent a handshake
\* without the field, another for a fresh build directory and sent one with it.
C16_BothHandshakes ==
    \E b, fresh \in DOMAIN conns :
        /\ conns[b].cacheAtCreate /\ conns[b].wire # <<>>
        /\ conns[b].wire[1].frame.type = "handshake"
        /\ "generator" \notin DOMAIN conns[b].wire[1].frame
        /\ ~conns[fresh].cacheAtCreate /\ conns[fresh].wire # <<>>
        /\ conns[fresh].wire[1].frame.type = "handshake"
        /\ "generator" \in DOMAIN conns[fresh].wire[1].frame

\* C17: a project init or a file query the plugin performs for build directory A
\* leaves the index (File map and Target map) and the server of every other build
\* directory B as they were.
C17_OtherBuildDirsUntouched ==
    [][\A b \in BuildDirs :
          (/\ pret'.op \in {"init_project_info", "get_file_info"}
           /\ pret'.build_dir # NoDir
           /\ b # pret'.build_dir)
          => /\ b \in DOMAIN index =>
                    /\ b \in DOMAIN index'
                    /\ index'[b].files = index[b].files
                    /\ index'[b].targets = index[b].targets
             /\ b \in DOMAIN servers => b \in DOMAIN servers' /\ servers'[b] = servers[b]]_vars

\* C18: on every connection no request is written before start and handshake have
\* succeeded, and no codemodel or cache request before a configure and then a compute
\* request were answered on it.
C18_RequestsInOrder ==
    \A b \in DOMAIN conns : \A i \in DOMAIN conns[b].wire :
        LET w == conns[b].wire
            answered(j, type) == w[j].frame.type = type /\ w[j].answer = "reply"
        IN /\ conns[b].started
           /\ w[i].frame.type # "handshake" => \E j \in 1..(i - 1) : answered(j, "handshake")
           /\ w[i].frame.type \in {"codemodel", "cache"} =>
                \E j \in 1..(i - 1), k \in 1..(i - 1) :
                    j < k /\ answered(j, "configure") /\ answered(k, "compute")


\* C30: every client in the plugin's map of servers has completed start and handshake:
\* one whose start or handshake raised is not left registered, so get_server never
\* returns a client that is not started or has not had its handshake answered.
C30_RegisteredServersReady ==
    \A b \in DOMAIN servers :
        /\ conns[b].started
        /\ servers[b].process # None /\ servers[b].socket # None
        /\ \E i \in DOMAIN conns[b].wire :
                conns[b].wire[i].frame.type = "handshake" /\ conns[b].wire[i].answer = "reply"


\* C28: after command_clear the plugin holds no index and no server; after an
\* init_project_info that configured, forced by an explicit build directory or because
\* the build directory had no index, the index of the build directory is built from
\* the codemodel served then: its converted entries are those of that codemodel, and
\* its only other entries are those the handler's own queries for the open buffers
\* added.  Nothing backfilled into the index the build directory had before is left.
FreshlyBuilt(ix, fresh, queried) ==
    /\ DOMAIN fresh.files \subseteq DOMAIN ix.files
    /\ \A f \in DOMAIN ix.files :
            IF f \in DOMAIN fresh.files THEN ix.files[f] = fresh.files[f] ELSE f \in queried
    /\ DOMAIN ix.targets = DOMAIN fresh.targets
    /\ \A n \in DOMAIN ix.targets :
            /\ IsPrefix(fresh.targets[n].filepaths, ix.targets[n].filepaths)
            /\ Range(ix.targets[n].filepaths) \subseteq Range(fresh.targets[n].filepaths) \cup queried

C28_DiscardedAndRebuilt ==
    [][/\ pret'.op = "command_clear" =>
            index' = <<>> /\ indexOrder' = <<>> /\ servers' = <<>>
       /\ (/\ pret'.op = "init_project_info"
           /\ pret'.raised = None
           /\ pret'.build_dir # NoDir
           /\ pret'.forced \/ pret'.build_dir \notin DOMAIN index) =>
            \E ix \in {index'[pret'.build_dir]} :
                FreshlyBuilt(ix,
                             IndexOf(ix.root_directory, ix.build_directory,
                                     ServedCodemodel(ix.root_directory)),
                             Range(buffers'))]_vars

\* A forced reconfiguration replaced an index that held a backfilled entry for
\* /p/lib/new.cpp, a file of no buffer: the new index has no entry for it.
C28_BackfilledEntryGone ==
    /\ pret.op = "init_project_info" /\ pret.forced /\ pret.raised = None
    /\ File(LibDir, "new", "cpp") \in pret.had
    /\ File(LibDir, "new", "cpp") \notin DOMAIN index[pret.build_dir].files
    /\ File(LibDir, "new", "cpp") \notin Range(buffers)

\* The plugin after a clear that dropped an index and a server.
C28_Cleared ==
    /\ pret.op = "command_clear"
    /\ index = <<>> /\ servers = <<>>
    /\ used_build_dirs # <<>>
    /\ persistent_server = 1


\* C33: a file query made without a build directory returns the file's record whenever
\* some index of the plugin resolves the path, directly or by heuristics, whichever
\* index that is; it returns none only when no index resolves it.
ResolvedBy(ix, filename) ==
    \E r \in {QueryFileOn(ix, filename, TRUE)} : r.raised = None /\ r.value # NoneObj

C33_AnyIndexAnswers ==
    [][\A filename \in QueriedFiles :
            GetFileInfo(filename, NoDir) =>
                (pret'.found <=> \E b \in DOMAIN index : ResolvedBy(index[b], filename))]_vars


\* C34: init_project_info with an explicit build directory that has no index, for a
\* root whose build directory in use is recorded, discards the server and the index of
\* that build directory and no other, and goes on to configure the new one; it does
\* not fail on a missing entry of a registry, whatever the registries hold.
C34_OldBuildDirDiscarded ==
    [][\A args \in InitArgs \ {<<NoDir, NoDir>>} :
            (/\ pret'.op = "init_project_info"
             /\ pret'.forced
             /\ pret'.build_dir = args[2]
             /\ args[2] \notin DOMAIN index
             /\ args[1] \in DOMAIN used_build_dirs) =>
                \E old \in {used_build_dirs[args[1]]} :
                    /\ pret'.raised # "KeyError"
                    /\ old # args[2] => old \notin DOMAIN index' /\ old \notin DOMAIN servers'
                    /\ \A b \in DOMAIN index \ {old} : b \in DOMAIN index'
                    /\ \A b \in DOMAIN servers \ {old, args[2]} : b \in DOMAIN servers'
                    /\ pret'.raised = None => args[2] \in DOMAIN index']_vars

-----------------------------------------------------------------------------
(* update_buffer_variables one call on the editor's channel at a time, with         *)
(* FlagsForFile of ycm_extra_conf.py reading the same buffer from its own process.  *)
(* The handlers that run update_buffer_variables are declared sync=False, so the    *)
(* editor serves the requests of other channels between two of their requests.      *)

\* The updates one behaviour runs.
MaxUpdates == 2

\* The buffer FlagsForFile is asked about: lib/foo.cpp, a file of target B of /p and
\* of target L of /p/lib.
FlagsBuffer == File(LibDir, "foo", "cpp")

\* The variables of a buffer, in the order update_buffer_variables deletes and sets
\* them.
BufferVariables ==
    <<"cmake_tree_build_dir", "cmake_tree_root_dir", "cmake_compile_flags", "cmake_configured">>

\* The option default_cpp_flags as shipped.
DefaultCppFlags ==
    << <<"-std=c++14">>,
       <<"-isystem">>, <<"/", "usr", "include", "c++", "v1">>,
       <<"-isystem">>, <<"/", "usr", "local", "include">>,
       <<"-isystem">>, <<"/", "usr", "include">> >>

\* The values update_buffer_variables sets from an index that knows the file.
ConfiguredValues(ix, abs_filepath) ==
    [cmake_tree_build_dir |-> ix.build_directory,
     cmake_tree_root_dir  |-> ix.root_directory,
     cmake_compile_flags  |-> ix.files[abs_filepath].flags,
     cmake_configured     |-> TRUE]

\* The values update_buffer_variables sets where no index knows the file.
DefaultValues ==
    [cmake_tree_build_dir |-> NoDir,
     cmake_tree_root_dir  |-> NoDir,
     cmake_compile_flags  |-> DefaultCppFlags,
     cmake_configured     |-> FALSE]

\* The indexes the plugin holds when the updates run.
IndexChoices == { <<>>, <<BuildOf(ProjectDir)>>, <<BuildOf(LibDir), BuildOf(ProjectDir)>> }

\* The root of a build directory of IndexChoices.
RootOf(build_dir) == IF build_dir = BuildOf(LibDir) THEN LibDir ELSE ProjectDir

\* update_buffer_variables is entered for the buffer.
UpdateBegin ==
    /\ upd.pc = "idle"
    /\ upd.n < MaxUpdates
    /\ upd' = [pc |-> "delete", n |-> upd.n + 1, j |-> 1, k |-> 1, configured |-> FALSE]
    /\ UNCHANGED <<wrote, ycm>>
    /\ UNCHANGED <<ivars, svars, wvars, pvars>>

\* One of the four del buffer.vars[...]; after the last, the loop over the indexes.
UpdateDelete ==
    /\ upd.pc = "delete"
    /\ bufvars' = [bufvars EXCEPT ![FlagsBuffer] = Without(@, BufferVariables[upd.k])]
    /\ wrote' = Without(wrote, BufferVariables[upd.k])
    /\ upd' = IF upd.k < Len(BufferVariables)
              THEN [upd EXCEPT !.k = @ + 1]
              ELSE [upd EXCEPT !.pc = "query", !.k = 1]
    /\ UNCHANGED ycm
    /\ UNCHANGED <<servers, index, indexOrder, used_build_dirs, buffers, persistent_server,
                   cachetxt, conns, inits, pret>>
    /\ UNCHANGED <<ivars, svars, wvars>>

\* The head of the loop over the indexes and its query_file; after the last index
\* the default values, unless an index knew the file.
UpdateQuery ==
    /\ upd.pc = "query"
    /\ IF upd.j > Len(indexOrder)
       THEN /\ upd' = [upd EXCEPT !.pc = IF upd.configured THEN "idle" ELSE "default", !.k = 1]
            /\ UNCHANGED index
       ELSE \E r \in {QueryFileOn(index[indexOrder[upd.j]], FlagsBuffer, TRUE)} :
            /\ index' = [index EXCEPT ![indexOrder[upd.j]] = r.index]
            /\ upd' = IF r.raised # None THEN [upd EXCEPT !.pc = "idle"]
                      ELSE IF r.value = NoneObj THEN [upd EXCEPT !.j = @ + 1]
                      ELSE [upd EXCEPT !.pc = "set", !.k = 1]
    /\ UNCHANGED <<wrote, ycm>>
    /\ UNCHANGED <<servers, indexOrder, used_build_dirs, buffers, bufvars, persistent_server,
                   cachetxt, conns, inits, pret>>
    /\ UNCHANGED <<ivars, svars, wvars>>

\* The assignment of one variable of the buffer.
Assign(name, value) ==
    /\ bufvars' = [bufvars EXCEPT ![FlagsBuffer] = Put(@, name, value)]
    /\ wrote' = Put(wrote, name, upd.n)
    /\ UNCHANGED ycm
    /\ UNCHANGED <<servers, index, indexOrder, used_build_dirs, buffers, persistent_server,
                   cachetxt, conns, inits, pret>>
    /\ UNCHANGED <<ivars, svars, wvars>>

\* One of the four assignments in the body of the loop, for an index that knows the
\* file; after the last, the next index.
UpdateSet ==
    /\ upd.pc = "set"
    /\ Assign(BufferVariables[upd.k],
              ConfiguredValues(index[indexOrder[upd.j]], FlagsBuffer)[BufferVariables[upd.k]])
    /\ upd' = IF upd.k < Len(BufferVariables)
              THEN [upd EXCEPT !.k = @ + 1]
              ELSE [upd EXCEPT !.pc = "query", !.k = 1, !.j = @ + 1, !.configured = TRUE]

\* One of the four assignments under 'if not configured'; after the last the update
\* has ended.
UpdateDefault ==
    /\ upd.pc = "default"
    /\ Assign(BufferVariables[upd.k], DefaultValues[BufferVariables[upd.k]])
    /\ upd' = IF upd.k < Len(BufferVariables)
              THEN [upd EXCEPT !.k = @ + 1]
              ELSE [upd EXCEPT !.pc = "idle", !.k = 1]

\* FlagsForFile is called for the buffer and enters its loop.
FlagsForFile ==
    /\ ycm.pc = "uncalled"
    /\ ycm' = [ycm EXCEPT !.pc = "test"]
    /\ UNCHANGED <<upd, wrote>>
    /\ UNCHANGED <<ivars, svars, wvars, pvars>>

\* 'cmake_configured' in buffer.vars, which is true; while it is false the loop
\* sleeps and tests again.
FlagsTest ==
    /\ ycm.pc = "test"
    /\ "cmake_configured" \in DOMAIN bufvars[FlagsBuffer]
    /\ ycm' = [ycm EXCEPT !.pc = "configured"]
    /\ UNCHANGED <<upd, wrote>>
    /\ UNCHANGED <<ivars, svars, wvars, pvars>>

\* The read of one variable of the buffer: its value and the update that wrote it,
\* or a KeyError.
Lookup(name) ==
    IF name \in DOMAIN bufvars[FlagsBuffer]
    THEN [raised |-> None, value |-> bufvars[FlagsBuffer][name], by |-> wrote[name]]
    ELSE [raised |-> "KeyError", value |-> NoneObj, by |-> 0]

\* buffer.vars['cmake_configured']
FlagsReadConfigured ==
    /\ ycm.pc = "configured"
    /\ \E r \in {Lookup("cmake_configured")} :
         ycm' = IF r.raised # None
                THEN [ycm EXCEPT !.pc = "raised", !.next = "cmake_configured"]
                ELSE [ycm EXCEPT !.pc = "next", !.configured = r.value, !.by = r.by,
                                 !.next = IF r.value THEN "cmake_tree_build_dir"
                                          ELSE "cmake_compile_flags"]
    /\ UNCHANGED <<upd, wrote>>
    /\ UNCHANGED <<ivars, svars, wvars, pvars>>

\* buffer.vars['cmake_tree_build_dir'] where cmake_configured was true, and
\* buffer.vars['cmake_compile_flags'] where it was false; a build directory of None
\* sends the loop round again.
FlagsReadNext ==
    /\ ycm.pc = "next"
    /\ \E r \in {Lookup(ycm.next)} :
         ycm' = IF r.raised # None THEN [ycm EXCEPT !.pc = "raised"]
                ELSE IF ycm.configured /\ r.value = NoDir
                THEN [ycm EXCEPT !.pc = "test", !.nextBy = r.by]
                ELSE [ycm EXCEPT !.pc = "read", !.nextBy = r.by]
    /\ UNCHANGED <<upd, wrote>>
    /\ UNCHANGED <<ivars, svars, wvars, pvars>>

NextFlags ==
    \/ UpdateBegin
    \/ UpdateDelete
    \/ UpdateQuery
    \/ UpdateSet
    \/ UpdateDefault
    \/ FlagsForFile
    \/ FlagsTest
    \/ FlagsReadConfigured
    \/ FlagsReadNext

\* A plugin that holds the indexes of some build directories and one buffer, whose
\* variables no update has set yet.
InitFlags ==
    /\ IndexConstructed
    /\ codemodel = <<>>
    /\ disk = <<>>
    /\ InitServer
    /\ InitWire
    /\ NoUpdate
    /\ indexOrder \in IndexChoices
    /\ index = [b \in {indexOrder[i] : i \in DOMAIN indexOrder} |->
                    IndexOf(RootOf(b), b, ServedCodemodel(RootOf(b)))]
    /\ servers = <<>>
    /\ used_build_dirs = <<>>
    /\ buffers = <<FlagsBuffer>>
    /\ bufvars = (FlagsBuffer :> <<>>)
    /\ conns = <<>>
    /\ inits = 0
    /\ pret = NoCall
    /\ persistent_server = 1
    /\ cachetxt = {}

SpecFlags == InitFlags /\ [][NextFlags]_vars

\* C35: whenever FlagsForFile has seen cmake_configured on the buffer, the variable it
\* reads next, cmake_tree_build_dir where cmake_configured was true and
\* cmake_compile_flags where it was false, is present and was written by the update
\* that wrote the cmake_configured it saw.
C35_NoTornUpdate ==
    /\ ycm.pc # "raised"
    /\ ycm.pc \in {"read", "test"} /\ ycm.nextBy # 0 => ycm.nextBy = ycm.by

====
